---- MODULE Spec2Model ----
(***************************************************************************)
(* PauseBuy: the purchase detector content script, the reflection overlay  *)
(* content script and the background Session Coordinator, as three         *)
(* cooperating single-threaded event loops that exchange asynchronous      *)
(* messages and share chrome.storage.                                      *)
(*                                                                         *)
(* An action of the detector is one run-to-completion step of its event    *)
(* loop: the code between two suspension points (await, promise callback,  *)
(* message delivery) of one handler. Spec follows one tab: there a handler *)
(* of the coordinator, and a button handler of the overlay with the        *)
(* coordinator's handlers its messages run, is one action. SpecBg follows  *)
(* the coordinator serving several tabs, one action per await. SpecClick   *)
(* adds the failures of the interception path to one tab, SpecRelay the    *)
(* routing of the overlay's messages. SpecPolicy, SpecOutcome and          *)
(* SpecProxy apply handlePurchaseDetected's policy, handlePurchaseOutcome  *)
(* and callProxyAPI to inputs drawn at the start, SpecRisk the risk        *)
(* classifiers to drawn requests, SpecScore the detector's scoring to      *)
(* drawn pages, SpecShield the shield manager to drawn layouts.            *)
(* SpecHandled is the shield manager with the page's detections answered,  *)
(* SpecRelease one tab with every way a held click is released. SpecLimit  *)
(* and SpecRetry follow the proxy's rate limiter, one action per awaited   *)
(* KV command, and generateWithRetry on drawn outcomes of its attempts.    *)
(***************************************************************************)
EXTENDS Integers, Sequences, FiniteSets, TLC

(***************************************************************************)
(* Bounds of the model                                                     *)
(***************************************************************************)
\* PURCHASE_DETECTED messages per behaviour
MaxDetected == 2
\* PURCHASE_OUTCOME messages per behaviour
MaxOutcomes == 2
\* clock advances per behaviour
MaxTicks == 2
\* isSuppressed() calls in flight at one time (auto-detections and clicks)
MaxCalls == 2

(***************************************************************************)
(* Program constants                                                       *)
(***************************************************************************)
SUPPRESSION_MS == 30000
AUTO_DETECT_DEBOUNCE_MS == 2000
AUTO_TRIGGER_SCORE == 60
MIN_CONFIDENCE == 50
CLICK_CONFIDENCE == 100
URL_SCORE == 30
BUTTON_SCORE == 40
DOM_PRICE_SCORE == 10
DOM_CARD_SCORE == 15
DOM_SUMMARY_SCORE == 5
DOM_SCORE_CAP == 30
MS_PER_HOUR == 3600000

NULL == "null"
\* an absent number (undefined), and an absent event identifier
UNSET == -1
NoEvent == 0

(***************************************************************************)
(* Inputs                                                                  *)
(***************************************************************************)
\* Date.now() when the page is loaded: 10:00 of some day
StartTime == 10 * MS_PER_HOUR
\* amounts by which the clock advances between two steps
TickSteps == {1000, 30000}
\* window.location.href values; the second matches CHECKOUT_URL_PATTERNS
URLs == {"https://www.amazon.com/dp/1", "https://www.amazon.com/checkout"}
CheckoutUrls == {"https://www.amazon.com/checkout"}
\* the pages the user goes to from page u: product page, then checkout
Links(u) == IF u \in CheckoutUrls THEN {} ELSE CheckoutUrls
\* window.location.hostname, as the sequence of its characters
Hostname(u) == <<"w", "w", "w", ".", "a", "m", "a", "z", "o", "n", ".", "c", "o", "m">>
AmazonSite == <<"a", "m", "a", "z", "o", "n", ".", "c", "o", "m">>
EbaySite == <<"e", "b", "a", "y", ".", "c", "o", "m">>
\* the tab the detector runs in, and the tabs the coordinator serves
TabA == 1
Tabs == {1, 2}
\* the purchase buttons a document can contain
Buttons == {"buy"}
\* the document the page shows: a purchase button and a price element, no
\* card input and no order summary; the product costs 50
ProductDom == [buttons |-> {"buy"}, price |-> TRUE, card |-> FALSE, summary |-> FALSE,
               productPrice |-> 50]
DomStates == {ProductDom}
\* a JavaScript value that is a number, and one that is a string (the
\* sequence of its characters)
JsNumber(n) == [num |-> TRUE, n |-> n, s |-> <<>>]
JsString(s) == [num |-> FALSE, n |-> 0, s |-> s]
\* chrome.storage.local contents; quietHours null is the record with set = FALSE
NoQuietHours == [set |-> FALSE, start |-> JsNumber(0), end |-> JsNumber(0)]
ZeroStats == [savedToday |-> 0, savedTotal |-> 0, streak |-> 0]
DefaultSettings == [enabledSites |-> {AmazonSite, EbaySite},
                    quietHours |-> NoQuietHours, frictionLevel |-> 3]

VARIABLES
  now, ticks,
  href, lastUrl, dom, handledUrl, overlayActive, pendingButton,
  shieldedButtons, lastAutoDetection, calls,
  proceedUntil, proceedAt, proceedHref,
  ovVisible, ovData, tabInbox,
  enabled, settings, stats, purchaseHistory, coolingOffList,
  requests,
  kv,
  heldClicks,
  claimHandled, resolved, lastAutoSent

clockVars == <<now, ticks>>
detVars == <<href, lastUrl, dom, handledUrl, overlayActive, pendingButton,
             shieldedButtons, lastAutoDetection, calls>>
sessVars == <<proceedUntil, proceedAt, proceedHref>>
ovVars == <<ovVisible, ovData, tabInbox>>
bgVars == <<enabled, settings, stats, purchaseHistory, coolingOffList>>
ghostVars == <<claimHandled, resolved, lastAutoSent>>
\* the proxy's Vercel KV store: the sorted set of one client's rate-limit key,
\* as the sequence of its members' scores
srvVars == <<kv>>
\* the clicks the shields intercepted and passed to isSuppressed(), less
\* those a button.click() of the detector has followed and those lost with a
\* rejected read
pageVars == <<heldClicks>>
vars == <<clockVars, detVars, sessVars, ovVars, bgVars, requests, ghostVars, srvVars, pageVars>>

(***************************************************************************)
(* Sequence helpers                                                        *)
(***************************************************************************)
Indices(s) == 1..Len(s)

(***************************************************************************)
(* Scoring engine (detector)                                               *)
(***************************************************************************)
Min(a, b) == IF a < b THEN a ELSE b

getUrlScore(u) == IF u \in CheckoutUrls THEN URL_SCORE ELSE 0

\* getButtonScore adding 40 for every matching button
getButtonScore_PerButton(d) == BUTTON_SCORE * Cardinality(d.buttons)

getButtonScore(d) == IF d.buttons # {} THEN BUTTON_SCORE ELSE 0

\* getDomScore without the points for an order summary
getDomScore_NoSummary(d) ==
  Min((IF d.price THEN DOM_PRICE_SCORE ELSE 0)
      + (IF d.card THEN DOM_CARD_SCORE ELSE 0), DOM_SCORE_CAP)

getDomScore(d) ==
  Min((IF d.price THEN DOM_PRICE_SCORE ELSE 0)
      + (IF d.card THEN DOM_CARD_SCORE ELSE 0)
      + (IF d.summary THEN DOM_SUMMARY_SCORE ELSE 0), DOM_SCORE_CAP)

\* totalScore without the URL score
totalScore_NoUrl(u, d) == getButtonScore(d) + getDomScore(d)

totalScore(u, d) == getUrlScore(u) + getButtonScore(d) + getDomScore(d)

(***************************************************************************)
(* Suppression window (chrome.storage.session)                             *)
(***************************************************************************)
\* isSuppressed without the comparison with Date.now()
isSuppressed_NoExpiry(pu, t) == pu # UNSET

\* isSuppressed: the comparison made on the value read from storage
isSuppressed(pu, t) == pu # UNSET /\ t < pu

\* setSuppression: the value written to storage
SuppressionDeadline(t) == t + SUPPRESSION_MS

\* autoDetectPurchaseIntent without its debounce test
DebounceRejects_Never(t, last) == FALSE

\* the debounce test of autoDetectPurchaseIntent: TRUE when the call returns
DebounceRejects(t, last) == t - last < AUTO_DETECT_DEBOUNCE_MS

(***************************************************************************)
(* Requests: chrome.runtime.sendMessage calls whose reply is awaited.      *)
(* requests[r] is the message, the position of the coordinator's handler   *)
(* for it, the handler's locals and, at the end, the response.             *)
(***************************************************************************)
\* asked and error are the fallback questions (their places in
\* FALLBACK_QUESTIONS) and meta.error, followed where callProxyAPI is applied
\* to drawn inputs
NoResp == [blocked |-> FALSE, reason |-> NULL, source |-> NULL, questions |-> 0,
           savedAmount |-> 0, asked |-> <<>>, error |-> NULL, fetches |-> 0]

\* the message sent with half the confidence
NewDetected_HalfConfidence(tab, kind, u, conf, price, b) ==
  [type |-> "PURCHASE_DETECTED", tab |-> tab, kind |-> kind, url |-> u,
   site |-> Hostname(u), confidence |-> conf \div 2, price |-> price, button |-> b,
   pc |-> "policy", eventId |-> NoEvent, outcome |-> NULL,
   reflectionTime |-> 0, histSnap |-> <<>>, statsSnap |-> ZeroStats, resp |-> NoResp]

NewDetected(tab, kind, u, conf, price, b) ==
  [type |-> "PURCHASE_DETECTED", tab |-> tab, kind |-> kind, url |-> u,
   site |-> Hostname(u), confidence |-> conf, price |-> price, button |-> b,
   pc |-> "policy", eventId |-> NoEvent, outcome |-> NULL,
   reflectionTime |-> 0, histSnap |-> <<>>, statsSnap |-> ZeroStats, resp |-> NoResp]

NewOutcome(tab, e, outcome, rt) ==
  [type |-> "PURCHASE_OUTCOME", tab |-> tab, kind |-> "overlay", url |-> NULL,
   site |-> <<>>, confidence |-> 0, price |-> 0, button |-> NULL,
   pc |-> "read", eventId |-> e, outcome |-> outcome,
   reflectionTime |-> rt, histSnap |-> <<>>, statsSnap |-> ZeroStats, resp |-> NoResp]

\* a request whose reply was consumed by its sender: nothing of it is used again
Finished(req) ==
  [req EXCEPT !.pc = "done", !.kind = NULL, !.url = NULL, !.site = <<>>, !.confidence = 0,
              !.price = 0, !.button = NULL, !.outcome = NULL, !.reflectionTime = 0,
              !.resp = NoResp]

(***************************************************************************)
(* Detector: shield manager                                                *)
(***************************************************************************)
\* shieldPurchaseButtons, called with handledUrl = h on document d
shieldPurchaseButtons(h, d, shields) ==
  IF h = href THEN shields ELSE shields \cup d.buttons

\* an isSuppressed() call in flight: storage.session.get is served in the
\* order of issue, so the call carries the value of proceedUntil at its issue
SuppressedCall(kind, b) == [kind |-> kind, until |-> proceedUntil, button |-> b]

\* autoDetectPurchaseIntent returning at once on every URL
autoDetectCall_Returns(h, cs) == cs

\* autoDetectPurchaseIntent up to its first await, called with handledUrl = h:
\* returns at once on a handled URL, else starts the isSuppressed() read
autoDetectCall(h, cs) ==
  IF h = href THEN cs ELSE Append(cs, SuppressedCall("auto", NULL))

CanCall(h) == h = href \/ Len(calls) < MaxCalls

(***************************************************************************)
(* Session Coordinator: policy of handlePurchaseDetected                   *)
(***************************************************************************)
\* includes replaced by startsWith
Includes_PrefixOnly(h, s) ==
  Len(s) <= Len(h) /\ \A j \in 1..Len(s) : h[j] = s[j]

\* String.prototype.includes on character sequences
Includes(h, s) ==
  \E k \in 0..(Len(h) - Len(s)) : \A j \in 1..Len(s) : h[k + j] = s[j]

\* new Date().getHours()
CurrentHour(t) == (t \div MS_PER_HOUR) % 24

\* The relational operators of JavaScript on numbers and strings. Two
\* strings are compared by their code units; otherwise both operands are
\* converted to numbers, and a comparison with NaN is false
DigitChars == <<"0", "1", "2", "3", "4", "5", "6", "7", "8", "9">>

IsDigit(c) == \E k \in 1..10 : DigitChars[k] = c

DigitValue(c) == (CHOOSE k \in 1..10 : DigitChars[k] = c) - 1

\* the code unit of a character: the digits, and the colon that follows them
CharCode(c) == IF IsDigit(c) THEN 48 + DigitValue(c) ELSE 58

RECURSIVE DecimalValue(_)
DecimalValue(s) ==
  IF s = <<>> THEN 0
  ELSE 10 * DecimalValue(SubSeq(s, 1, Len(s) - 1)) + DigitValue(s[Len(s)])

\* ToNumber: a string of digits is its decimal value, the empty string 0,
\* any other string NaN
ToNumber(v) ==
  IF v.num THEN [nan |-> FALSE, n |-> v.n]
  ELSE IF \A k \in 1..Len(v.s) : IsDigit(v.s[k])
    THEN [nan |-> FALSE, n |-> DecimalValue(v.s)]
  ELSE [nan |-> TRUE, n |-> 0]

\* a < b on strings
StringLess(a, b) ==
  \E k \in 1..Len(b) :
    /\ \A j \in 1..(k - 1) : j <= Len(a) /\ a[j] = b[j]
    /\ (k > Len(a) \/ CharCode(a[k]) < CharCode(b[k]))

\* a < b
JsLess(a, b) ==
  IF ~a.num /\ ~b.num THEN StringLess(a.s, b.s)
  ELSE LET x == ToNumber(a)
           y == ToNumber(b)
       IN ~x.nan /\ ~y.nan /\ x.n < y.n

\* a <= b
JsLessEq(a, b) ==
  IF ~a.num /\ ~b.num THEN ~StringLess(b.s, a.s)
  ELSE LET x == ToNumber(a)
           y == ToNumber(b)
       IN ~x.nan /\ ~y.nan /\ x.n <= y.n

\* the quiet-hours test of handlePurchaseDetected for window q at hour h
InQuietHours(q, h) ==
  \/ (JsLessEq(q.start, q.end) /\ JsLessEq(q.start, JsNumber(h)) /\ JsLess(JsNumber(h), q.end))
  \/ (JsLess(q.end, q.start) /\ (JsLessEq(q.start, JsNumber(h)) \/ JsLess(JsNumber(h), q.end)))

\* the policy checks with the confidence threshold tested first
PolicyReason_ConfidenceFirst(en, st, h, site, conf) ==
  IF conf < MIN_CONFIDENCE THEN "low_confidence"
  ELSE IF ~en THEN "extension_disabled"
  ELSE IF st.quietHours.set /\ InQuietHours(st.quietHours, h) THEN "quiet_hours"
  ELSE IF st.enabledSites # {} /\ ~(\E s \in st.enabledSites : Includes(site, s))
    THEN "site_not_enabled"
  ELSE NULL

\* the reason handlePurchaseDetected refuses with, NULL when all checks pass
PolicyReason(en, st, h, site, conf) ==
  IF ~en THEN "extension_disabled"
  ELSE IF st.quietHours.set /\ InQuietHours(st.quietHours, h) THEN "quiet_hours"
  ELSE IF st.enabledSites # {} /\ ~(\E s \in st.enabledSites : Includes(site, s))
    THEN "site_not_enabled"
  ELSE IF conf < MIN_CONFIDENCE THEN "low_confidence"
  ELSE NULL

\* callProxyAPI: the ways the fetch can end
ProxyOutcomes == {"ok", "network_error"}

\* createFallbackResponse: number of questions
FallbackQuestionCount(st) == IF st.frictionLevel >= 4 THEN 3 ELSE 2

\* the reflection response callProxyAPI resolves with
ProxyResponse(o, st) ==
  IF o = "ok" THEN [source |-> "claude", questions |-> 3]
  ELSE [source |-> "fallback", questions |-> FallbackQuestionCount(st)]

\* the record handlePurchaseDetected pushes onto purchaseHistory
PendingEvent(req, e, source) ==
  [id |-> e, tab |-> req.tab, price |-> req.price, outcome |-> "pending",
   reflectionTime |-> 0, source |-> source]

\* the orphan record handlePurchaseOutcome pushes when no record matches
OrphanEvent(req) ==
  [id |-> req.eventId, tab |-> req.tab, price |-> 0, outcome |-> req.outcome,
   reflectionTime |-> req.reflectionTime, source |-> NULL]

\* purchaseHistory.findIndex: first index with that id, 0 if none
findIndex(h, e) ==
  IF \E i \in Indices(h) : h[i].id = e
  THEN CHOOSE i \in Indices(h) : h[i].id = e /\ \A j \in 1..(i - 1) : h[j].id # e
  ELSE 0

NumDetected == Cardinality({r \in Indices(requests) : requests[r].type = "PURCHASE_DETECTED"})
NumOutcomes == Cardinality({r \in Indices(requests) : requests[r].type = "PURCHASE_OUTCOME"})

(***************************************************************************)
(* Session Coordinator: handlePurchaseDetected, one action per await       *)
(***************************************************************************)
IsDetected(r, pc) ==
  r \in Indices(requests) /\ requests[r].type = "PURCHASE_DETECTED" /\ requests[r].pc = pc

IsOutcome(r, pc) ==
  r \in Indices(requests) /\ requests[r].type = "PURCHASE_OUTCOME" /\ requests[r].pc = pc

\* handlePurchaseDetected recording the detections it refuses
BgPolicy_LogsRefusal(r) ==
  /\ IsDetected(r, "policy")
  /\ LET req == requests[r]
         reason == PolicyReason(enabled, settings, CurrentHour(now), req.site, req.confidence)
     IN /\ requests' = [requests EXCEPT ![r] =
             IF reason # NULL
             THEN [req EXCEPT !.pc = "responded", !.resp = [NoResp EXCEPT !.reason = reason]]
             ELSE [req EXCEPT !.pc = "proxy", !.eventId = r]]
        /\ purchaseHistory' = IF reason # NULL
                              THEN Append(purchaseHistory, PendingEvent(req, r, NULL))
                              ELSE purchaseHistory
  /\ UNCHANGED <<pageVars, srvVars, clockVars, detVars, sessVars, ovVars, enabled, settings, stats,
                 coolingOffList, ghostVars>>

\* storage.get(enabled, settings) resolved: the four policy checks; a refusal
\* is returned and sent by the listener's then-callback; else the event
\* identifier is drawn and callProxyAPI is called
BgPolicy(r) ==
  /\ IsDetected(r, "policy")
  /\ LET req == requests[r]
         reason == PolicyReason(enabled, settings, CurrentHour(now), req.site, req.confidence)
     IN requests' = [requests EXCEPT ![r] =
          IF reason # NULL
          THEN [req EXCEPT !.pc = "responded", !.resp = [NoResp EXCEPT !.reason = reason]]
          ELSE [req EXCEPT !.pc = "proxy", !.eventId = r]]
  /\ UNCHANGED <<pageVars, srvVars, clockVars, detVars, sessVars, ovVars, bgVars, ghostVars>>

\* callProxyAPI resolved, with the proxy's answer or with the fallback;
\* storage.get(purchaseHistory) is issued
BgProxy(r, o) ==
  /\ IsDetected(r, "proxy")
  /\ LET pr == ProxyResponse(o, settings)
     IN requests' = [requests EXCEPT ![r] =
          [@ EXCEPT !.pc = "readHistory",
                    !.resp = [NoResp EXCEPT !.source = pr.source, !.questions = pr.questions,
                                            !.fetches = 1]]]
  /\ UNCHANGED <<pageVars, srvVars, clockVars, detVars, sessVars, ovVars, bgVars, ghostVars>>

\* storage.get(purchaseHistory) is served
BgReadHistory(r) ==
  /\ IsDetected(r, "readHistory")
  /\ requests' = [requests EXCEPT ![r] =
       [@ EXCEPT !.pc = "writeHistory", !.histSnap = purchaseHistory]]
  /\ UNCHANGED <<pageVars, srvVars, clockVars, detVars, sessVars, ovVars, bgVars, ghostVars>>

\* the pending event is pushed onto the list read and the list is stored;
\* the handler returns and the listener's then-callback sends SHOW_OVERLAY
BgWriteHistory(r) ==
  /\ IsDetected(r, "writeHistory")
  /\ LET req == requests[r]
     IN /\ purchaseHistory' = Append(req.histSnap, PendingEvent(req, req.eventId, req.resp.source))
        /\ requests' = [requests EXCEPT ![r] =
             [req EXCEPT !.pc = "overlaySent", !.histSnap = <<>>,
                         !.resp = [req.resp EXCEPT !.blocked = TRUE]]]
  /\ UNCHANGED <<pageVars, srvVars, clockVars, detVars, sessVars, ovVars, enabled, settings, stats,
                 coolingOffList, ghostVars>>

(***************************************************************************)
(* Session Coordinator: handlePurchaseOutcome                              *)
(***************************************************************************)
\* storage.get(stats, purchaseHistory) is served
OutRead(r) ==
  /\ IsOutcome(r, "read")
  /\ requests' = [requests EXCEPT ![r] =
       [@ EXCEPT !.pc = "write", !.histSnap = purchaseHistory, !.statsSnap = stats]]
  /\ UNCHANGED <<pageVars, srvVars, clockVars, detVars, sessVars, ovVars, bgVars, ghostVars>>

\* the amount handlePurchaseOutcome credits for record index i of list h
savedAmountOf(h, i) == IF i = 0 THEN 0 ELSE h[i].price

\* handlePurchaseOutcome without the branch that pushes an orphan record
outcomeHistory_NoOrphan(h, req) ==
  LET i == findIndex(h, req.eventId)
  IN IF i # 0
     THEN [h EXCEPT ![i] = [@ EXCEPT !.outcome = req.outcome,
                                      !.reflectionTime = req.reflectionTime]]
     ELSE h

\* the list handlePurchaseOutcome stores
outcomeHistory(h, req) ==
  LET i == findIndex(h, req.eventId)
  IN IF i # 0
     THEN [h EXCEPT ![i] = [@ EXCEPT !.outcome = req.outcome,
                                      !.reflectionTime = req.reflectionTime]]
     ELSE Append(h, OrphanEvent(req))

\* handlePurchaseOutcome crediting the price whatever the outcome
outcomeStats_AnyOutcome(s, req, amount) ==
  [s EXCEPT !.savedToday = @ + amount, !.savedTotal = @ + amount]

\* the stats handlePurchaseOutcome stores
outcomeStats(s, req, amount) ==
  IF req.outcome \in {"saved", "cooled_off"}
  THEN [s EXCEPT !.savedToday = @ + amount, !.savedTotal = @ + amount]
  ELSE s

\* the record is updated (or an orphan pushed), the savings credited, stats
\* and purchaseHistory are stored, and sendResponse({success, savedAmount})
OutWrite(r) ==
  /\ IsOutcome(r, "write")
  /\ LET req == requests[r]
         amount == savedAmountOf(req.histSnap, findIndex(req.histSnap, req.eventId))
     IN /\ purchaseHistory' = outcomeHistory(req.histSnap, req)
        /\ stats' = outcomeStats(req.statsSnap, req, amount)
        /\ requests' = [requests EXCEPT ![r] =
             [req EXCEPT !.pc = "responded", !.histSnap = <<>>, !.statsSnap = ZeroStats,
                         !.resp = [NoResp EXCEPT !.savedAmount = amount]]]
  /\ UNCHANGED <<pageVars, srvVars, clockVars, detVars, sessVars, ovVars, enabled, settings,
                 coolingOffList, ghostVars>>

(***************************************************************************)
(* Session Coordinator, a handler run without another handler in between   *)
(***************************************************************************)
\* handlePurchaseDetected and the listener's then-callback: the policy
\* checks; if they pass, callProxyAPI (ending as o), the pending event
\* appended to purchaseHistory, and SHOW_OVERLAY sent to the tab
handlePurchaseDetected(r, o) ==
  /\ IsDetected(r, "policy")
  /\ LET req == requests[r]
         reason == PolicyReason(enabled, settings, CurrentHour(now), req.site, req.confidence)
         pr == ProxyResponse(o, settings)
     IN IF reason # NULL
        THEN /\ requests' = [requests EXCEPT ![r] =
                  [req EXCEPT !.pc = "responded", !.resp = [NoResp EXCEPT !.reason = reason]]]
             /\ UNCHANGED purchaseHistory
        ELSE /\ purchaseHistory' = Append(purchaseHistory, PendingEvent(req, r, pr.source))
             /\ requests' = [requests EXCEPT ![r] =
                  [req EXCEPT !.pc = "overlaySent", !.eventId = r,
                              !.resp = [NoResp EXCEPT !.blocked = TRUE, !.source = pr.source,
                                                      !.questions = pr.questions]]]
  /\ UNCHANGED <<pageVars, srvVars, clockVars, detVars, sessVars, ovVars, enabled, settings, stats,
                 coolingOffList, ghostVars>>

(***************************************************************************)
(* The clock (Date.now())                                                  *)
(***************************************************************************)
\* The clock advances by d, a second or more. The setInterval callback runs
\* every second, so a changed href has been seen; a chrome.storage.session
\* read is served within milliseconds, so no isSuppressed() call is in flight
Tick(d) ==
  /\ ticks < MaxTicks
  /\ lastUrl = href
  /\ calls = <<>>
  /\ now' = now + d
  /\ ticks' = ticks + 1
  /\ UNCHANGED <<pageVars, srvVars, detVars, sessVars, ovVars, bgVars, requests, ghostVars>>

(***************************************************************************)
(* Detector: page events                                                   *)
(***************************************************************************)
\* The document changes to d (added nodes or class/id attributes) and the
\* MutationObserver callback runs: autoDetectPurchaseIntent(), shieldPurchaseButtons()
Mutation(d) ==
  /\ CanCall(handledUrl)
  /\ dom' = d
  /\ calls' = autoDetectCall(handledUrl, calls)
  /\ shieldedButtons' = shieldPurchaseButtons(handledUrl, d, shieldedButtons)
  /\ UNCHANGED <<href, lastUrl, handledUrl, overlayActive, pendingButton, lastAutoDetection>>
  /\ UNCHANGED <<pageVars, srvVars, clockVars, sessVars, ovVars, bgVars, requests, ghostVars>>

\* The page navigates without reloading (history.pushState): href becomes u
UrlChange(u) ==
  /\ u \in Links(href)
  /\ href' = u
  /\ claimHandled' = NULL
  /\ UNCHANGED <<lastUrl, dom, handledUrl, overlayActive, pendingButton,
                 shieldedButtons, lastAutoDetection, calls>>
  /\ UNCHANGED <<pageVars, srvVars, clockVars, sessVars, ovVars, bgVars, requests, resolved, lastAutoSent>>

\* The setInterval callback that sees a new href
UrlPoll ==
  /\ href # lastUrl
  /\ CanCall(NULL)
  /\ lastUrl' = href
  /\ handledUrl' = NULL
  /\ calls' = autoDetectCall(NULL, calls)
  /\ shieldedButtons' = shieldPurchaseButtons(NULL, dom, {})
  /\ UNCHANGED <<href, dom, overlayActive, pendingButton, lastAutoDetection>>
  /\ UNCHANGED <<pageVars, srvVars, clockVars, sessVars, ovVars, bgVars, requests, ghostVars>>

\* The user clicks shield b: the listener returns while an overlay is active
\* or the URL is handled, else it starts the isSuppressed() read
ShieldClick(b) ==
  /\ b \in shieldedButtons
  /\ ~(overlayActive \/ handledUrl = href)
  /\ Len(calls) < MaxCalls
  /\ calls' = Append(calls, SuppressedCall("click", b))
  /\ heldClicks' = heldClicks + 1
  /\ UNCHANGED <<href, lastUrl, dom, handledUrl, overlayActive, pendingButton,
                 shieldedButtons, lastAutoDetection>>
  /\ UNCHANGED <<srvVars, clockVars, sessVars, ovVars, bgVars, requests, ghostVars>>

\* autoDetectPurchaseIntent after its await (storage.session.get served):
\* suppression, debounce, score, and the PURCHASE_DETECTED message
AutoResume ==
  /\ calls # <<>>
  /\ Head(calls).kind = "auto"
  /\ calls' = Tail(calls)
  /\ IF \/ isSuppressed(Head(calls).until, now)
        \/ DebounceRejects(now, lastAutoDetection)
        \/ totalScore(href, dom) < AUTO_TRIGGER_SCORE
     THEN UNCHANGED <<lastAutoDetection, requests, lastAutoSent>>
     ELSE /\ NumDetected < MaxDetected
          /\ lastAutoDetection' = now
          /\ lastAutoSent' = now
          /\ requests' = Append(requests,
               NewDetected(TabA, "auto", href, totalScore(href, dom), dom.productPrice, NULL))
  /\ UNCHANGED <<href, lastUrl, dom, handledUrl, overlayActive, pendingButton, shieldedButtons>>
  /\ UNCHANGED <<pageVars, srvVars, clockVars, sessVars, ovVars, bgVars, claimHandled, resolved>>

\* the click listener with the debounce of auto-detection applied to clicks
ClickResume_Debounced(b) ==
  /\ calls # <<>>
  /\ Head(calls).kind = "click"
  /\ Head(calls).button = b
  /\ calls' = Tail(calls)
  /\ IF isSuppressed(Head(calls).until, now)
     THEN /\ shieldedButtons' = {}
          /\ claimHandled' = href
          /\ heldClicks' = heldClicks - 1
          /\ UNCHANGED <<pendingButton, requests, lastAutoDetection>>
     ELSE IF DebounceRejects(now, lastAutoDetection)
     THEN UNCHANGED <<pendingButton, requests, lastAutoDetection, shieldedButtons, claimHandled,
                      heldClicks>>
     ELSE /\ NumDetected < MaxDetected
          /\ pendingButton' = b
          /\ lastAutoDetection' = now
          /\ requests' = Append(requests,
               NewDetected(TabA, "click", href, CLICK_CONFIDENCE, dom.productPrice, b))
          /\ UNCHANGED <<shieldedButtons, claimHandled, heldClicks>>
  /\ UNCHANGED <<href, lastUrl, dom, handledUrl, overlayActive>>
  /\ UNCHANGED <<srvVars, clockVars, sessVars, ovVars, bgVars, resolved, lastAutoSent>>

\* the click listener of button b's shield after isSuppressed(): pass the click through,
\* or handleShieldClick
ClickResume(b) ==
  /\ calls # <<>>
  /\ Head(calls).kind = "click"
  /\ Head(calls).button = b
  /\ calls' = Tail(calls)
  /\ IF isSuppressed(Head(calls).until, now)
     THEN /\ shieldedButtons' = {}
          /\ claimHandled' = href
          /\ heldClicks' = heldClicks - 1
          /\ UNCHANGED <<pendingButton, requests>>
     ELSE /\ NumDetected < MaxDetected
          /\ pendingButton' = b
          /\ requests' = Append(requests,
               NewDetected(TabA, "click", href, CLICK_CONFIDENCE, dom.productPrice, b))
          /\ UNCHANGED <<shieldedButtons, claimHandled, heldClicks>>
  /\ UNCHANGED <<href, lastUrl, dom, handledUrl, overlayActive, lastAutoDetection>>
  /\ UNCHANGED <<srvVars, clockVars, sessVars, ovVars, bgVars, resolved, lastAutoSent>>

\* the then-callback leaving the shields in place when the click is not blocked
DetResponse_KeepsShields(r) ==
  /\ IsDetected(r, "responded")
  /\ requests[r].tab = TabA
  /\ requests' = [requests EXCEPT ![r] = Finished(@)]
  /\ IF requests[r].resp.blocked
     THEN /\ handledUrl' = href
          /\ UNCHANGED <<shieldedButtons, pendingButton, claimHandled, heldClicks>>
     ELSE IF requests[r].kind = "click"
     THEN /\ pendingButton' = NULL
          /\ claimHandled' = href
          /\ heldClicks' = heldClicks - 1
          /\ UNCHANGED <<handledUrl, shieldedButtons>>
     ELSE UNCHANGED <<handledUrl, shieldedButtons, pendingButton, claimHandled, heldClicks>>
  /\ UNCHANGED <<href, lastUrl, dom, overlayActive, lastAutoDetection, calls>>
  /\ UNCHANGED <<srvVars, clockVars, sessVars, ovVars, bgVars, resolved, lastAutoSent>>

\* the then-callback of the detector's sendMessage
DetResponse(r) ==
  /\ IsDetected(r, "responded")
  /\ requests[r].tab = TabA
  /\ requests' = [requests EXCEPT ![r] = Finished(@)]
  /\ IF requests[r].resp.blocked
     THEN /\ handledUrl' = href
          /\ UNCHANGED <<shieldedButtons, pendingButton, claimHandled, heldClicks>>
     ELSE IF requests[r].kind = "click"
     THEN /\ shieldedButtons' = {}
          /\ pendingButton' = NULL
          /\ claimHandled' = href
          /\ heldClicks' = heldClicks - 1
          /\ UNCHANGED handledUrl
     ELSE UNCHANGED <<handledUrl, shieldedButtons, pendingButton, claimHandled, heldClicks>>
  /\ UNCHANGED <<href, lastUrl, dom, overlayActive, lastAutoDetection, calls>>
  /\ UNCHANGED <<srvVars, clockVars, sessVars, ovVars, bgVars, resolved, lastAutoSent>>

(***************************************************************************)
(* Messages to the tab. In Spec and SpecClick the messages the overlay      *)
(* sends with chrome.runtime.sendMessage are taken to reach the detector's *)
(* listener, in the order sent (tabInbox); SpecRelay routes them as the    *)
(* coordinator's listener does.                                            *)
(***************************************************************************)
NoData == [eventId |-> NoEvent, price |-> 0, startedAt |-> 0]

\* SHOW_OVERLAY reaches the tab: the detector's listener sets overlayActive,
\* the overlay's listener shows the prompt and acknowledges, on which the
\* coordinator's listener calls sendResponse
TabShowOverlay(r) ==
  /\ IsDetected(r, "overlaySent")
  /\ requests[r].tab = TabA
  /\ overlayActive' = TRUE
  /\ ovVisible' = TRUE
  /\ ovData' = [eventId |-> requests[r].eventId, price |-> requests[r].price,
                startedAt |-> now]
  /\ requests' = [requests EXCEPT ![r] = [@ EXCEPT !.pc = "responded"]]
  /\ claimHandled' = href
  /\ UNCHANGED <<href, lastUrl, dom, handledUrl, pendingButton, shieldedButtons,
                 lastAutoDetection, calls>>
  /\ UNCHANGED <<pageVars, srvVars, clockVars, sessVars, tabInbox, bgVars, resolved, lastAutoSent>>

\* the detector's listener receives PROCEED_WITH_PURCHASE
DetProceed ==
  /\ tabInbox # <<>>
  /\ Head(tabInbox) = "PROCEED_WITH_PURCHASE"
  /\ tabInbox' = Tail(tabInbox)
  /\ overlayActive' = FALSE
  /\ proceedUntil' = SuppressionDeadline(now)
  /\ proceedAt' = now
  /\ proceedHref' = href
  /\ shieldedButtons' = {}
  /\ handledUrl' = href
  /\ heldClicks' = IF pendingButton # NULL THEN heldClicks - 1 ELSE heldClicks
  /\ pendingButton' = NULL
  /\ UNCHANGED <<href, lastUrl, dom, lastAutoDetection, calls>>
  /\ UNCHANGED <<srvVars, clockVars, ovVisible, ovData, bgVars, requests, ghostVars>>

\* the detector's listener receives RESET_DETECTION
DetReset ==
  /\ tabInbox # <<>>
  /\ Head(tabInbox) = "RESET_DETECTION"
  /\ tabInbox' = Tail(tabInbox)
  /\ overlayActive' = FALSE
  /\ shieldedButtons' = {}
  /\ handledUrl' = href
  /\ pendingButton' = NULL
  /\ UNCHANGED <<href, lastUrl, dom, lastAutoDetection, calls>>
  /\ UNCHANGED <<pageVars, srvVars, clockVars, sessVars, ovVisible, ovData, bgVars, requests, ghostVars>>

(***************************************************************************)
(* Overlay content script: a button handler with the coordinator's         *)
(* handlers its messages run. sent is what reaches the listeners of the    *)
(* tab from the handler's last chrome.runtime.sendMessage                  *)
(***************************************************************************)
reflectionTimeOf(start, t) == (t - start) \div 1000

OverlayShown == ovVisible /\ ovData.eventId # NoEvent

\* "I Still Want It": PURCHASE_OUTCOME bought is recorded by
\* handlePurchaseOutcome, PROCEED_WITH_PURCHASE is sent, the prompt is hidden
handleProceedSending(sent) ==
  /\ OverlayShown
  /\ LET msg == NewOutcome(TabA, ovData.eventId, "bought",
                           reflectionTimeOf(ovData.startedAt, now))
         amount == savedAmountOf(purchaseHistory, findIndex(purchaseHistory, msg.eventId))
     IN /\ purchaseHistory' = outcomeHistory(purchaseHistory, msg)
        /\ stats' = outcomeStats(stats, msg, amount)
  /\ tabInbox' = tabInbox \o sent
  /\ ovVisible' = FALSE
  /\ ovData' = NoData
  /\ resolved' = resolved \cup {ovData.eventId}
  /\ UNCHANGED <<pageVars, srvVars, clockVars, detVars, sessVars, enabled, settings, coolingOffList, requests,
                 claimHandled, lastAutoSent>>

handleProceed == handleProceedSending(<<"PROCEED_WITH_PURCHASE">>)

\* "Save for Later": SAVE_FOR_LATER adds the product to coolingOffList
\* (handleSaveForLater of the coordinator), PURCHASE_OUTCOME saved is
\* recorded, RESET_DETECTION is sent, the prompt is hidden
handleSaveForLaterSending(sent) ==
  /\ OverlayShown
  /\ coolingOffList' = Append(coolingOffList, ovData.price)
  /\ LET msg == NewOutcome(TabA, ovData.eventId, "saved",
                           reflectionTimeOf(ovData.startedAt, now))
         amount == savedAmountOf(purchaseHistory, findIndex(purchaseHistory, msg.eventId))
     IN /\ purchaseHistory' = outcomeHistory(purchaseHistory, msg)
        /\ stats' = outcomeStats(stats, msg, amount)
  /\ tabInbox' = tabInbox \o sent
  /\ ovVisible' = FALSE
  /\ ovData' = NoData
  /\ resolved' = resolved \cup {ovData.eventId}
  /\ UNCHANGED <<pageVars, srvVars, clockVars, detVars, sessVars, enabled, settings, requests,
                 claimHandled, lastAutoSent>>

handleSaveForLater == handleSaveForLaterSending(<<"RESET_DETECTION">>)

\* the close button: RESET_DETECTION is sent, the prompt is hidden
handleDismissSending(sent) ==
  /\ OverlayShown
  /\ tabInbox' = tabInbox \o sent
  /\ ovVisible' = FALSE
  /\ ovData' = NoData
  /\ resolved' = resolved \cup {ovData.eventId}
  /\ UNCHANGED <<pageVars, srvVars, clockVars, detVars, sessVars, bgVars, requests, claimHandled,
                 lastAutoSent>>

handleDismiss == handleDismissSending(<<"RESET_DETECTION">>)

(***************************************************************************)
(* The page, its overlay and the coordinator                               *)
(***************************************************************************)
InitPage ==
  /\ href = "https://www.amazon.com/dp/1"
  /\ lastUrl = href
  /\ dom \in DomStates
  /\ handledUrl = NULL
  /\ overlayActive = FALSE
  /\ pendingButton = NULL
  /\ shieldedButtons = dom.buttons
  /\ lastAutoDetection = 0
  /\ proceedUntil = UNSET
  /\ calls = <<SuppressedCall("auto", NULL)>>
  /\ proceedAt = UNSET
  /\ proceedHref = NULL
  /\ ovVisible = FALSE
  /\ ovData = NoData
  /\ tabInbox = <<>>
  /\ claimHandled = NULL
  /\ resolved = {}
  /\ lastAutoSent = UNSET

InitStorage ==
  /\ stats = ZeroStats
  /\ purchaseHistory = <<>>
  /\ coolingOffList = <<>>
  /\ requests = <<>>

Init ==
  /\ now = StartTime
  /\ ticks = 0
  /\ kv = <<>>
  /\ heldClicks = 0
  /\ InitPage
  /\ InitStorage
  /\ enabled \in BOOLEAN
  /\ settings = DefaultSettings

Next ==
  \/ \E d \in TickSteps : Tick(d)
  \/ \E d \in DomStates : Mutation(d)
  \/ \E u \in URLs : UrlChange(u)
  \/ UrlPoll
  \/ \E b \in shieldedButtons : ShieldClick(b)
  \/ AutoResume
  \/ \E b \in Buttons : ClickResume(b)
  \/ \E r \in Indices(requests) : handlePurchaseDetected(r, "ok")
  \/ \E r \in Indices(requests) : TabShowOverlay(r)
  \/ \E r \in Indices(requests) : DetResponse(r)
  \/ handleProceed
  \/ handleSaveForLater
  \/ handleDismiss
  \/ DetProceed
  \/ DetReset

Spec == Init /\ [][Next]_vars

(***************************************************************************)
(* The coordinator serving several tabs: the tabs' content scripts are the *)
(* environment, handlers interleave at their awaits                        *)
(***************************************************************************)
\* (confidence, kind) of the detections a tab sends, and the outcomes and
\* reflection times its overlay reports
DetectionKinds == {[kind |-> "click", confidence |-> 100]}
OutcomeReports == {[outcome |-> "saved", reflectionTime |-> 3],
                   [outcome |-> "bought", reflectionTime |-> 7]}

\* the detector of tab t sends PURCHASE_DETECTED
TabDetected(t, k) ==
  /\ NumDetected < MaxDetected
  /\ requests' = Append(requests,
       NewDetected(t, k.kind, "https://www.amazon.com/checkout", k.confidence, 50, NULL))
  /\ UNCHANGED <<pageVars, srvVars, clockVars, detVars, sessVars, ovVars, bgVars, ghostVars>>

\* the overlay of the tab of request r receives SHOW_OVERLAY and acknowledges,
\* on which the coordinator's listener calls sendResponse
OverlayAck(r) ==
  /\ IsDetected(r, "overlaySent")
  /\ requests' = [requests EXCEPT ![r] = [@ EXCEPT !.pc = "responded"]]
  /\ UNCHANGED <<pageVars, srvVars, clockVars, detVars, sessVars, ovVars, bgVars, ghostVars>>

\* the events whose prompt the overlay of a tab has shown
ShownEvents == {r \in Indices(requests) :
                  /\ requests[r].type = "PURCHASE_DETECTED"
                  /\ requests[r].pc = "responded"
                  /\ requests[r].resp.blocked}

\* the overlay that showed event e sends PURCHASE_OUTCOME
TabOutcome(e, o) ==
  /\ e \in ShownEvents
  /\ NumOutcomes < MaxOutcomes
  /\ requests' = Append(requests, NewOutcome(requests[e].tab, requests[e].eventId, o.outcome, o.reflectionTime))
  /\ UNCHANGED <<pageVars, srvVars, clockVars, detVars, sessVars, ovVars, bgVars, ghostVars>>

InitBg ==
  /\ now = StartTime
  /\ ticks = 0
  /\ kv = <<>>
  /\ heldClicks = 0
  /\ InitPage
  /\ InitStorage
  /\ enabled \in BOOLEAN
  /\ settings = DefaultSettings

NextBg ==
  \/ \E t \in Tabs, k \in DetectionKinds : TabDetected(t, k)
  \/ \E r \in Indices(requests) : BgPolicy(r)
  \/ \E r \in Indices(requests), o \in ProxyOutcomes : BgProxy(r, o)
  \/ \E r \in Indices(requests) : BgReadHistory(r)
  \/ \E r \in Indices(requests) : BgWriteHistory(r)
  \/ \E r \in Indices(requests) : OverlayAck(r)
  \/ \E e \in Indices(requests), o \in OutcomeReports : TabOutcome(e, o)
  \/ \E r \in Indices(requests) : OutRead(r)
  \/ \E r \in Indices(requests) : OutWrite(r)

SpecBg == InitBg /\ [][NextBg]_vars

\* the coordinator's steps are taken once enabled; the proxy's answer
\* (BgProxy) is the network's to give and is not
SpecBgFair ==
  /\ SpecBg
  /\ \A r \in 1..(MaxDetected + MaxOutcomes) :
       /\ WF_vars(BgPolicy(r))
       /\ WF_vars(BgReadHistory(r))
       /\ WF_vars(BgWriteHistory(r))
       /\ WF_vars(OverlayAck(r))
       /\ WF_vars(OutRead(r))
       /\ WF_vars(OutWrite(r))

(***************************************************************************)
(* One tab with the failures of the interception path: a rejected          *)
(* chrome.storage.session read, an error in the coordinator's handler, a   *)
(* rejected chrome.tabs.sendMessage, a message port closed without answer  *)
(***************************************************************************)
\* chrome.storage.session.get rejects: isSuppressed() rejects. The click
\* listener's then-callback is not run and the promise has no rejection
\* handler; autoDetectPurchaseIntent ends with its await throwing
SuppressedReadFails ==
  /\ calls # <<>>
  /\ calls' = Tail(calls)
  /\ heldClicks' = IF Head(calls).kind = "click" THEN heldClicks - 1 ELSE heldClicks
  /\ UNCHANGED <<href, lastUrl, dom, handledUrl, overlayActive, pendingButton,
                 shieldedButtons, lastAutoDetection>>
  /\ UNCHANGED <<srvVars, clockVars, sessVars, ovVars, bgVars, requests, ghostVars>>

\* handleMessage rejects (a chrome.storage.local call of the handler fails):
\* the listener's then-callback is not run, sendResponse is never called
HandlerFails(r) ==
  /\ IsDetected(r, "policy")
  /\ requests' = [requests EXCEPT ![r] = [@ EXCEPT !.pc = "noResponse"]]
  /\ UNCHANGED <<pageVars, srvVars, clockVars, detVars, sessVars, ovVars, bgVars, ghostVars>>

\* chrome.tabs.sendMessage(SHOW_OVERLAY) rejects (no listener answers in the
\* tab): the then-callback throws at its await, sendResponse is never called
RelayFails(r) ==
  /\ IsDetected(r, "overlaySent")
  /\ requests' = [requests EXCEPT ![r] = [@ EXCEPT !.pc = "noResponse"]]
  /\ UNCHANGED <<pageVars, srvVars, clockVars, detVars, sessVars, ovVars, bgVars, ghostVars>>

\* the port of a message that got no response is closed (the service worker
\* stops): the detector's sendMessage promise rejects and its catch runs
PortClosed(r) ==
  /\ IsDetected(r, "noResponse")
  /\ requests[r].tab = TabA
  /\ requests' = [requests EXCEPT ![r] = Finished(@)]
  /\ IF requests[r].kind = "click"
     THEN /\ shieldedButtons' = {}
          /\ pendingButton' = NULL
          /\ claimHandled' = href
          /\ heldClicks' = heldClicks - 1
     ELSE UNCHANGED <<shieldedButtons, pendingButton, claimHandled, heldClicks>>
  /\ UNCHANGED <<href, lastUrl, dom, handledUrl, overlayActive, lastAutoDetection, calls>>
  /\ UNCHANGED <<srvVars, clockVars, sessVars, ovVars, bgVars, resolved, lastAutoSent>>

\* a click of the user on shield b, while the messages it may lead to are
\* within MaxDetected
UserClick(b) ==
  /\ NumDetected + Len(calls) < MaxDetected
  /\ ShieldClick(b)

\* the isSuppressed() read at the head of the queue settles
ReadSettles ==
  \/ AutoResume
  \/ \E b \in Buttons : ClickResume(b)
  \/ SuppressedReadFails

\* the coordinator's handler for request r settles
HandlerSettles(r) ==
  \/ \E o \in ProxyOutcomes : handlePurchaseDetected(r, o)
  \/ HandlerFails(r)

\* the SHOW_OVERLAY message of request r settles
RelaySettles(r) == TabShowOverlay(r) \/ RelayFails(r)

NextClick ==
  \/ \E d \in DomStates : Mutation(d)
  \/ \E b \in shieldedButtons : UserClick(b)
  \/ ReadSettles
  \/ \E r \in Indices(requests) : HandlerSettles(r)
  \/ \E r \in Indices(requests) : RelaySettles(r)
  \/ \E r \in Indices(requests) : DetResponse(r)
  \/ \E r \in Indices(requests) : PortClosed(r)
  \/ handleProceed
  \/ handleSaveForLater
  \/ handleDismiss
  \/ DetProceed
  \/ DetReset

SpecClick == Init /\ [][NextClick]_vars

\* promises settle and delivered messages are handled; the user's clicks and
\* the page's mutations are not forced
SpecClickFair ==
  /\ SpecClick
  /\ WF_vars(ReadSettles)
  /\ WF_vars(DetProceed)
  /\ WF_vars(DetReset)
  /\ \A r \in 1..MaxDetected :
       /\ WF_vars(HandlerSettles(r))
       /\ WF_vars(RelaySettles(r))
       /\ WF_vars(DetResponse(r))
       /\ WF_vars(PortClosed(r))

\* One tab with navigation and with the failures of a click's path, the
\* clock standing still: every way a held click is released, pass-through
\* under suppression included
NextRelease ==
  \/ \E d \in DomStates : Mutation(d)
  \/ \E u \in URLs : UrlChange(u)
  \/ UrlPoll
  \/ \E b \in shieldedButtons : UserClick(b)
  \/ AutoResume
  \/ \E b \in Buttons : ClickResume(b)
  \/ \E r \in Indices(requests) : HandlerSettles(r)
  \/ \E r \in Indices(requests) : TabShowOverlay(r)
  \/ \E r \in Indices(requests) : DetResponse(r)
  \/ \E r \in Indices(requests) : PortClosed(r)
  \/ handleProceed
  \/ handleDismiss
  \/ DetProceed
  \/ DetReset

SpecRelease == Init /\ [][NextRelease]_vars

(***************************************************************************)
(* One tab with the overlay's messages routed as the code routes them:     *)
(* chrome.runtime.sendMessage delivers to the coordinator's listener, and  *)
(* the listeners of the tab get what that listener sends with              *)
(* chrome.tabs.sendMessage                                                 *)
(***************************************************************************)
HandledTypes == {"PURCHASE_DETECTED", "SAVE_FOR_LATER", "PURCHASE_OUTCOME", "GET_STATS"}

\* handleMessage: the case of its switch that a message of that type takes
handleMessage(type) == IF type \in HandledTypes THEN type ELSE "default"

\* whether the response handleMessage returns has blocked: true; passed
\* tells whether the policy checks of handlePurchaseDetected passed
ResponseBlocked(type, passed) == handleMessage(type) = "PURCHASE_DETECTED" /\ passed

\* the coordinator's listener: the messages its then-callback sends to the
\* sender's tab for a message of that type
SentToTab(type, passed) ==
  IF ResponseBlocked(type, passed) THEN <<"SHOW_OVERLAY">> ELSE <<>>

\* the detector's onMessage listener, for message m of the tab (SHOW_OVERLAY
\* of request r)
DetOnMessage(m, r) ==
  IF m = "SHOW_OVERLAY" THEN TabShowOverlay(r)
  ELSE IF m = "PROCEED_WITH_PURCHASE" THEN DetProceed
  ELSE m = "RESET_DETECTION" /\ DetReset

TabMessageTypes == {"SHOW_OVERLAY", "PROCEED_WITH_PURCHASE", "RESET_DETECTION"}

NextRelay ==
  \/ \E d \in DomStates : Mutation(d)
  \/ \E u \in URLs : UrlChange(u)
  \/ UrlPoll
  \/ \E b \in shieldedButtons : ShieldClick(b)
  \/ AutoResume
  \/ \E b \in Buttons : ClickResume(b)
  \/ \E r \in Indices(requests) : handlePurchaseDetected(r, "ok")
  \/ \E m \in TabMessageTypes, r \in Indices(requests) : DetOnMessage(m, r)
  \/ \E r \in Indices(requests) : DetResponse(r)
  \/ handleProceedSending(SentToTab("PROCEED_WITH_PURCHASE", FALSE))
  \/ handleSaveForLaterSending(SentToTab("RESET_DETECTION", FALSE))
  \/ handleDismissSending(SentToTab("RESET_DETECTION", FALSE))

SpecRelay == Init /\ [][NextRelay]_vars

\* delivered messages are handled and promises settle
SpecRelayFair ==
  /\ SpecRelay
  /\ WF_vars(AutoResume \/ \E b \in Buttons : ClickResume(b))
  /\ \A r \in 1..MaxDetected :
       /\ WF_vars(handlePurchaseDetected(r, "ok"))
       /\ WF_vars(\E m \in TabMessageTypes : DetOnMessage(m, r))
       /\ WF_vars(DetResponse(r))

(***************************************************************************)
(* The policy of handlePurchaseDetected on drawn inputs: the hour of the   *)
(* day, the enabled flag and the settings are drawn at the start, the      *)
(* detections one at a time                                                *)
(***************************************************************************)
\* settings.quietHours: null, windows given as hours, and windows given as
\* the strings the type UserSettings declares
QuietWindows ==
  {NoQuietHours,
   [set |-> TRUE, start |-> JsNumber(9), end |-> JsNumber(17)],
   [set |-> TRUE, start |-> JsNumber(22), end |-> JsNumber(6)],
   [set |-> TRUE, start |-> JsString(<<"0", "9", ":", "0", "0">>),
                  end |-> JsString(<<"1", "7", ":", "0", "0">>)],
   [set |-> TRUE, start |-> JsString(<<"2", "2", ":", "0", "0">>),
                  end |-> JsString(<<"0", "6", ":", "0", "0">>)]}

\* settings.enabledSites: empty, the default list, lists without an entry
\* for the page's site, a list with an entry inside its hostname
SiteLists ==
  {{}, {AmazonSite, EbaySite}, {EbaySite},
   {EbaySite, <<"z", "o", "n", ".", "c">>},
   {EbaySite, <<"a", "m", "a", "z", "o", "n", ".", "d", "e">>}}

\* the detections a tab sends
PolicyDetections == {[kind |-> "auto", confidence |-> 49],
                     [kind |-> "auto", confidence |-> 50],
                     [kind |-> "click", confidence |-> 100]}

\* the tab sends PURCHASE_DETECTED once its earlier message is answered
PolicyDetected(k) ==
  /\ \A r \in Indices(requests) : requests[r].pc = "responded"
  /\ TabDetected(TabA, k)

InitPolicy ==
  /\ now \in {h * MS_PER_HOUR : h \in 0..23}
  /\ ticks = 0
  /\ kv = <<>>
  /\ heldClicks = 0
  /\ InitPage
  /\ InitStorage
  /\ enabled \in BOOLEAN
  /\ settings \in {[enabledSites |-> l, quietHours |-> q, frictionLevel |-> 3] :
                      l \in SiteLists, q \in QuietWindows}

NextPolicy ==
  \/ \E k \in PolicyDetections : PolicyDetected(k)
  \/ \E r \in Indices(requests) : BgPolicy(r)
  \/ \E r \in Indices(requests) : BgProxy(r, "ok")
  \/ \E r \in Indices(requests) : BgReadHistory(r)
  \/ \E r \in Indices(requests) : BgWriteHistory(r)
  \/ \E r \in Indices(requests) : OverlayAck(r)

SpecPolicy == InitPolicy /\ [][NextPolicy]_vars

(***************************************************************************)
(* handlePurchaseOutcome on drawn inputs: the stored purchaseHistory and   *)
(* stats are drawn at the start, the messages are handled one at a time    *)
(***************************************************************************)
\* a record of purchaseHistory
StoredEvent(e, price, outcome) ==
  [id |-> e, tab |-> TabA, price |-> price, outcome |-> outcome,
   reflectionTime |-> 0, source |-> "claude"]

\* purchaseHistory as stored: empty, pending events with a price and
\* without one (price 0), an event already resolved
StoredHistories ==
  {<<>>,
   <<StoredEvent(1, 50, "pending")>>,
   <<StoredEvent(1, 50, "pending"), StoredEvent(2, 20, "pending")>>,
   <<StoredEvent(2, 0, "pending"), StoredEvent(1, 20, "bought")>>}

StoredStats == {ZeroStats, [savedToday |-> 5, savedTotal |-> 70, streak |-> 1]}

\* the eventId, outcome and reflection time of a PURCHASE_OUTCOME message
OutcomeEventIds == 1..3
OutcomeMessages == OutcomeReports \cup {[outcome |-> "cooled_off", reflectionTime |-> 5]}

\* a PURCHASE_OUTCOME message arrives once the earlier one is answered
OutcomeSent(e, o) ==
  /\ NumOutcomes < MaxOutcomes
  /\ \A r \in Indices(requests) : requests[r].pc = "responded"
  /\ requests' = Append(requests, NewOutcome(TabA, e, o.outcome, o.reflectionTime))
  /\ UNCHANGED <<pageVars, srvVars, clockVars, detVars, sessVars, ovVars, bgVars, ghostVars>>

InitOutcome ==
  /\ now = StartTime
  /\ ticks = 0
  /\ kv = <<>>
  /\ heldClicks = 0
  /\ InitPage
  /\ enabled = TRUE
  /\ settings = DefaultSettings
  /\ stats \in StoredStats
  /\ purchaseHistory \in StoredHistories
  /\ coolingOffList = <<>>
  /\ requests = <<>>

NextOutcome ==
  \/ \E e \in OutcomeEventIds, o \in OutcomeMessages : OutcomeSent(e, o)
  \/ \E r \in Indices(requests) : OutRead(r)
  \/ \E r \in Indices(requests) : OutWrite(r)

SpecOutcome == InitOutcome /\ [][NextOutcome]_vars

(***************************************************************************)
(* callProxyAPI on drawn inputs: the friction level is drawn at the start, *)
(* the way the fetch ends and the order Math.random gives the pool of      *)
(* fallback questions at each call                                         *)
(***************************************************************************)
\* FALLBACK_QUESTIONS: the questions of the pool, by their place in it
FALLBACK_QUESTIONS == <<1, 2, 3, 4, 5>>

\* the orders [...FALLBACK_QUESTIONS].sort(() => Math.random() - 0.5) can give
Shuffles ==
  {sh \in [1..Len(FALLBACK_QUESTIONS) -> 1..Len(FALLBACK_QUESTIONS)] :
     \A i, j \in 1..Len(FALLBACK_QUESTIONS) : i # j => sh[i] # sh[j]}

\* slice(0, count) taking the first question count times
getRandomFallbackQuestions_Repeats(count, shuffled) ==
  [i \in 1..count |-> FALLBACK_QUESTIONS[shuffled[1]]]

\* getRandomFallbackQuestions: the first count questions of the shuffled pool
getRandomFallbackQuestions(count, shuffled) ==
  [i \in 1..count |-> FALLBACK_QUESTIONS[shuffled[i]]]

\* context.frictionLevel: settings?.frictionLevel || 3 (0 stands for a
\* level that is not set)
ContextFriction(st) == IF st.frictionLevel = 0 THEN 3 ELSE st.frictionLevel

\* createFallbackResponse
createFallbackResponse(st, shuffled, error) ==
  [source |-> "fallback",
   asked |-> getRandomFallbackQuestions(IF ContextFriction(st) >= 4 THEN 3 ELSE 2, shuffled),
   error |-> error]

\* the ways the fetch of callProxyAPI ends: the proxy's answer, a rejected
\* fetch, status 429, another status that is not ok, a body that
\* response.json() cannot parse
FetchOutcomes == {"ok", "network_error", "rate_limited", "api_error", "bad_body"}

\* callProxyAPI: what it resolves with after its one fetch
callProxyAPI(o, st, shuffled) ==
  CASE o = "ok" -> [source |-> "claude", asked |-> <<>>, error |-> NULL]
    [] o = "rate_limited" -> createFallbackResponse(st, shuffled, "rate_limit_exceeded")
    [] o = "api_error" -> createFallbackResponse(st, shuffled, "api_error_500")
    [] o = "network_error" -> createFallbackResponse(st, shuffled, "Failed to fetch")
    [] o = "bad_body" -> createFallbackResponse(st, shuffled, "Unexpected token")

\* callProxyAPI resolved for detection r; storage.get(purchaseHistory) is issued
ProxyCall(r, o, shuffled) ==
  /\ IsDetected(r, "proxy")
  /\ LET pr == callProxyAPI(o, settings, shuffled)
     IN requests' = [requests EXCEPT ![r] =
          [@ EXCEPT !.pc = "readHistory",
                    !.resp = [NoResp EXCEPT !.source = pr.source,
                                            !.questions = IF o = "ok" THEN 3 ELSE Len(pr.asked),
                                            !.asked = pr.asked,
                                            !.error = pr.error,
                                            !.fetches = 1]]]
  /\ UNCHANGED <<pageVars, srvVars, clockVars, detVars, sessVars, ovVars, bgVars, ghostVars>>

\* the tab sends PURCHASE_DETECTED once it has got the reply to its earlier one
ProxyDetected(k) ==
  /\ \A r \in Indices(requests) : requests[r].pc = "done"
  /\ TabDetected(TabA, k)

InitProxy ==
  /\ now = StartTime
  /\ ticks = 0
  /\ kv = <<>>
  /\ heldClicks = 0
  /\ InitPage
  /\ InitStorage
  /\ enabled = TRUE
  /\ settings \in {[DefaultSettings EXCEPT !.frictionLevel = f] : f \in 0..5}

NextProxy ==
  \/ \E k \in DetectionKinds : ProxyDetected(k)
  \/ \E r \in Indices(requests) : BgPolicy(r)
  \/ \E r \in Indices(requests), o \in FetchOutcomes, sh \in Shuffles : ProxyCall(r, o, sh)
  \/ \E r \in Indices(requests) : BgReadHistory(r)
  \/ \E r \in Indices(requests) : BgWriteHistory(r)
  \/ \E r \in Indices(requests) : OverlayAck(r)
  \/ \E r \in Indices(requests) : DetResponse(r)

SpecProxy == InitProxy /\ [][NextProxy]_vars

(***************************************************************************)
(* The detector on drawn pages: the URL and the document are drawn at the  *)
(* start and the document changes to any of the drawn documents, all       *)
(* within the same second                                                  *)
(***************************************************************************)
\* the documents drawn: no purchase button, one or two, with or without a
\* price element, a card input, an order summary
ScoredDoms ==
  {[buttons |-> b, price |-> p, card |-> c, summary |-> s, productPrice |-> 50] :
     b \in {{}, {"buy"}, {"buy", "cart"}}, p \in BOOLEAN, c \in BOOLEAN, s \in BOOLEAN}

InitScore ==
  /\ now = StartTime
  /\ ticks = 0
  /\ kv = <<>>
  /\ heldClicks = 0
  /\ href \in URLs
  /\ lastUrl = href
  /\ dom \in ScoredDoms
  /\ handledUrl = NULL
  /\ overlayActive = FALSE
  /\ pendingButton = NULL
  /\ shieldedButtons = dom.buttons
  /\ lastAutoDetection = 0
  /\ proceedUntil = UNSET
  /\ calls = <<SuppressedCall("auto", NULL)>>
  /\ proceedAt = UNSET
  /\ proceedHref = NULL
  /\ ovVisible = FALSE
  /\ ovData = NoData
  /\ tabInbox = <<>>
  /\ claimHandled = NULL
  /\ resolved = {}
  /\ lastAutoSent = UNSET
  /\ InitStorage
  /\ enabled = TRUE
  /\ settings = DefaultSettings

NextScore ==
  \/ \E d \in ScoredDoms : Mutation(d)
  \/ \E u \in URLs : UrlChange(u)
  \/ UrlPoll
  \/ \E b \in shieldedButtons : ShieldClick(b)
  \/ AutoResume
  \/ \E b \in shieldedButtons : ClickResume(b)

SpecScore == InitScore /\ [][NextScore]_vars

(***************************************************************************)
(* The shield manager on drawn layouts. dom.rect[b] is what                *)
(* getBoundingClientRect gives for button b, dom.shields[b] the shield     *)
(* elements in document.body that were created for b, in the order they    *)
(* were appended; shieldedButtons holds the keys of the map, and the map   *)
(* gives for b the shield last created for b                               *)
(***************************************************************************)
\* the documents drawn: a first button at one of two places, or without
\* width, or without height; a second button present or not, with or without
\* width; the window scrolled or not
Layouts ==
  {[buttons |-> bs, price |-> TRUE, card |-> FALSE, summary |-> FALSE, productPrice |-> 50,
    rect |-> [buy |-> [top |-> t, left |-> 10, width |-> wh[1], height |-> wh[2]],
              cart |-> [top |-> 200, left |-> 10, width |-> w, height |-> 20]],
    scrollX |-> 0, scrollY |-> y, shields |-> [b \in {"buy", "cart"} |-> <<>>]] :
     bs \in {{"buy"}, {"buy", "cart"}},
     t \in {0, 100}, wh \in {<<80, 20>>, <<0, 20>>, <<80, 0>>},
     w \in {0, 80}, y \in {0, 50}}

\* rect.width === 0 || rect.height === 0
ZeroBox(d, b) == d.rect[b].width = 0 \/ d.rect[b].height = 0

\* createShield: the element appended to document.body for button b
createShield(d, b) ==
  [top |-> d.rect[b].top + d.scrollY, left |-> d.rect[b].left + d.scrollX,
   width |-> d.rect[b].width, height |-> d.rect[b].height, display |-> ""]

\* updateShieldPosition without the scroll offsets
updateShieldPosition_ViewportOnly(d, b, shield) ==
  IF ZeroBox(d, b) THEN [shield EXCEPT !.display = "none"]
  ELSE [top |-> d.rect[b].top, left |-> d.rect[b].left,
        width |-> d.rect[b].width, height |-> d.rect[b].height, display |-> ""]

\* updateShieldPosition: the shield of button b after the call
updateShieldPosition(d, b, shield) ==
  IF ZeroBox(d, b) THEN [shield EXCEPT !.display = "none"]
  ELSE [top |-> d.rect[b].top + d.scrollY, left |-> d.rect[b].left + d.scrollX,
        width |-> d.rect[b].width, height |-> d.rect[b].height, display |-> ""]

\* the shield elements after the shields of the map's buttons got the
\* positions of updateShieldPosition
Repositioned(d, keys) ==
  [b \in DOMAIN d.shields |->
     IF b \in keys
     THEN [d.shields[b] EXCEPT ![Len(d.shields[b])] = updateShieldPosition(d, b, @)]
     ELSE d.shields[b]]

\* shieldPurchaseButtons without the test shieldedButtons.has(button)
shieldAll_AlwaysCreates(h, u, d, keys) ==
  IF h = u THEN [shields |-> d.shields, keys |-> keys]
  ELSE [shields |-> [b \in DOMAIN d.shields |->
                       IF b \in d.buttons /\ ~ZeroBox(d, b)
                       THEN Append(d.shields[b], createShield(d, b))
                       ELSE d.shields[b]],
        keys |-> keys \cup {b \in d.buttons : ~ZeroBox(d, b)}]

\* shieldPurchaseButtons, called with handledUrl = h on URL u and document d:
\* the shield elements and the keys of the map after the call
shieldAll(h, u, d, keys) ==
  IF h = u THEN [shields |-> d.shields, keys |-> keys]
  ELSE [shields |-> [b \in DOMAIN d.shields |->
                       IF b \in d.buttons /\ b \notin keys /\ ~ZeroBox(d, b)
                       THEN Append(d.shields[b], createShield(d, b))
                       ELSE Repositioned(d, keys \cap d.buttons)[b]],
        keys |-> keys \cup {b \in d.buttons : ~ZeroBox(d, b)}]

\* removeAllShields clearing the map without removing an element
removeAllShields_ClearsOnly(d, keys) == d.shields

\* removeAllShields: the shield elements left in document.body
removeAllShields(d, keys) ==
  [b \in DOMAIN d.shields |->
     IF b \in keys THEN SubSeq(d.shields[b], 1, Len(d.shields[b]) - 1) ELSE d.shields[b]]

\* The document changes to layout l (added nodes or class/id attributes) and
\* the MutationObserver callback runs: autoDetectPurchaseIntent(),
\* shieldPurchaseButtons()
ShieldMutation(l) ==
  /\ CanCall(handledUrl)
  /\ calls' = autoDetectCall(handledUrl, calls)
  /\ LET d == [l EXCEPT !.shields = dom.shields]
         after == shieldAll(handledUrl, href, d, shieldedButtons)
     IN /\ dom' = [d EXCEPT !.shields = after.shields]
        /\ shieldedButtons' = after.keys
  /\ UNCHANGED <<href, lastUrl, handledUrl, overlayActive, pendingButton, lastAutoDetection>>
  /\ UNCHANGED <<pageVars, srvVars, clockVars, sessVars, ovVars, bgVars, requests, ghostVars>>

\* The boxes of the buttons or the scroll position change (styles, scrolling):
\* no callback of the detector runs
Relayout(l) ==
  /\ l.buttons = dom.buttons
  /\ dom' = [l EXCEPT !.shields = dom.shields]
  /\ UNCHANGED <<href, lastUrl, handledUrl, overlayActive, pendingButton, shieldedButtons,
                 lastAutoDetection, calls>>
  /\ UNCHANGED <<pageVars, srvVars, clockVars, sessVars, ovVars, bgVars, requests, ghostVars>>

\* The window is resized, the layout becomes l, and the resize listener runs
\* updateShieldPosition for every button of the map
Resize(l) ==
  /\ l.buttons = dom.buttons
  /\ LET d == [l EXCEPT !.shields = dom.shields]
     IN dom' = [d EXCEPT !.shields = Repositioned(d, shieldedButtons)]
  /\ UNCHANGED <<href, lastUrl, handledUrl, overlayActive, pendingButton, shieldedButtons,
                 lastAutoDetection, calls>>
  /\ UNCHANGED <<pageVars, srvVars, clockVars, sessVars, ovVars, bgVars, requests, ghostVars>>

\* The setInterval callback that sees a new href: removeAllShields(),
\* autoDetectPurchaseIntent(), shieldPurchaseButtons()
ShieldUrlPoll ==
  /\ href # lastUrl
  /\ CanCall(NULL)
  /\ lastUrl' = href
  /\ handledUrl' = NULL
  /\ calls' = autoDetectCall(NULL, calls)
  /\ LET d == [dom EXCEPT !.shields = removeAllShields(dom, shieldedButtons)]
         after == shieldAll(NULL, href, d, {})
     IN /\ dom' = [d EXCEPT !.shields = after.shields]
        /\ shieldedButtons' = after.keys
  /\ UNCHANGED <<href, overlayActive, pendingButton, lastAutoDetection>>
  /\ UNCHANGED <<pageVars, srvVars, clockVars, sessVars, ovVars, bgVars, requests, ghostVars>>

InitShield ==
  /\ now = StartTime
  /\ ticks = 0
  /\ kv = <<>>
  /\ heldClicks = 0
  /\ href = "https://www.amazon.com/dp/1"
  /\ lastUrl = href
  /\ \E l \in Layouts :
       /\ dom = [l EXCEPT !.shields = shieldAll(NULL, href, l, {}).shields]
       /\ shieldedButtons = shieldAll(NULL, href, l, {}).keys
  /\ handledUrl = NULL
  /\ overlayActive = FALSE
  /\ pendingButton = NULL
  /\ lastAutoDetection = 0
  /\ proceedUntil = UNSET
  /\ calls = <<SuppressedCall("auto", NULL)>>
  /\ proceedAt = UNSET
  /\ proceedHref = NULL
  /\ ovVisible = FALSE
  /\ ovData = NoData
  /\ tabInbox = <<>>
  /\ claimHandled = NULL
  /\ resolved = {}
  /\ lastAutoSent = UNSET
  /\ InitStorage
  /\ enabled = TRUE
  /\ settings = DefaultSettings

NextShield ==
  \/ \E l \in Layouts : ShieldMutation(l)
  \/ \E l \in Layouts : Relayout(l)
  \/ \E l \in Layouts : Resize(l)
  \/ \E u \in URLs : UrlChange(u)
  \/ ShieldUrlPoll
  \/ AutoResume

SpecShield == InitShield /\ [][NextShield]_vars

(***************************************************************************)
(* The shield manager with the detections of the page answered: a click on *)
(* a displayed shield or an automatic detection is blocked by the          *)
(* coordinator, the prompt is shown and the response marks the URL as      *)
(* handled while the shields are in the document                           *)
(***************************************************************************)
\* the layouts with buttons of full height, the window not scrolled
HandledLayouts ==
  {l \in Layouts : /\ l.rect["buy"].height = 20
                   /\ l.rect["cart"].width = 80
                   /\ l.scrollY = 0}

\* the shields of the map that are displayed
DisplayedShields ==
  {b \in shieldedButtons :
     Len(dom.shields[b]) > 0 /\ dom.shields[b][Len(dom.shields[b])].display = ""}

InitHandled ==
  /\ InitShield
  /\ [dom EXCEPT !.shields = [b \in DOMAIN dom.shields |-> <<>>]] \in HandledLayouts

NextHandled ==
  \/ \E l \in HandledLayouts : ShieldMutation(l)
  \/ \E u \in URLs : UrlChange(u)
  \/ ShieldUrlPoll
  \/ AutoResume
  \/ \E b \in DisplayedShields : UserClick(b)
  \/ \E b \in DOMAIN dom.shields : ClickResume(b)
  \/ \E r \in Indices(requests) : handlePurchaseDetected(r, "ok")
  \/ \E r \in Indices(requests) : TabShowOverlay(r)
  \/ \E r \in Indices(requests) : DetResponse(r)

SpecHandled == InitHandled /\ [][NextHandled]_vars

(***************************************************************************)
(* The risk classifiers on drawn requests: determineLocalRiskLevel of the  *)
(* extension and determineRiskLevel of the server classify the same        *)
(* product and context                                                     *)
(***************************************************************************)
\* determineLocalRiskLevel
determineLocalRiskLevel(product, context) ==
  LET time == IF context.timeOfDay = "late_night" THEN 2
              ELSE IF context.timeOfDay = "night" THEN 1 ELSE 0
      recent == IF context.recentPurchaseCount > 3 THEN 2
                ELSE IF context.recentPurchaseCount > 1 THEN 1 ELSE 0
      price == IF product.price > 200 THEN 2
               ELSE IF product.price > 50 THEN 1 ELSE 0
      score == time + recent + price
  IN IF score >= 4 THEN "high" ELSE IF score >= 2 THEN "medium" ELSE "low"

\* determineRiskLevel of the server; timeOfDay is the class getTimeOfDay
\* gives for the request's time
determineRiskLevel(request) ==
  LET time == IF request.context.timeOfDay = "late_night" THEN 2
              ELSE IF request.context.timeOfDay = "night" THEN 1 ELSE 0
      recent == IF request.context.recentPurchaseCount > 3 THEN 2
                ELSE IF request.context.recentPurchaseCount > 1 THEN 1 ELSE 0
      friction == IF request.context.frictionLevel >= 4 THEN 1 ELSE 0
      price == IF request.product.price > 200 THEN 2
               ELSE IF request.product.price > 50 THEN 1 ELSE 0
      riskScore == time + recent + friction + price
  IN IF riskScore >= 4 THEN "high" ELSE IF riskScore >= 2 THEN "medium" ELSE "low"

\* the largest recentPurchaseCount drawn
MaxRecentPurchases == 5

\* the requests drawn: each time-of-day class, prices on both sides of 50 and
\* of 200, friction levels 1..5
ReflectionRequests ==
  {[type |-> "REFLECTION", product |-> [price |-> p],
    context |-> [timeOfDay |-> t, recentPurchaseCount |-> c, frictionLevel |-> f],
    localRisk |-> NULL, serverRisk |-> NULL] :
     p \in {0, 50, 51, 200, 201, 250},
     t \in {"morning", "afternoon", "evening", "night", "late_night"},
     c \in 0..MaxRecentPurchases,
     f \in 1..5}

\* createFallbackResponse sets riskLevel for the request
LocalClassify(r) ==
  /\ requests[r].localRisk = NULL
  /\ requests' = [requests EXCEPT ![r].localRisk =
                    determineLocalRiskLevel(requests[r].product, requests[r].context)]
  /\ UNCHANGED <<pageVars, srvVars, clockVars, detVars, sessVars, ovVars, bgVars, ghostVars>>

\* handleGenerate of the server sets riskLevel for the request
ServerClassify(r) ==
  /\ requests[r].serverRisk = NULL
  /\ requests' = [requests EXCEPT ![r].serverRisk = determineRiskLevel(requests[r])]
  /\ UNCHANGED <<pageVars, srvVars, clockVars, detVars, sessVars, ovVars, bgVars, ghostVars>>

InitRisk ==
  /\ now = StartTime
  /\ ticks = 0
  /\ kv = <<>>
  /\ heldClicks = 0
  /\ InitPage
  /\ enabled = TRUE
  /\ settings = DefaultSettings
  /\ stats = ZeroStats
  /\ purchaseHistory = <<>>
  /\ coolingOffList = <<>>
  /\ \E q \in ReflectionRequests : requests = <<q>>

NextRisk ==
  \/ \E r \in Indices(requests) : LocalClassify(r)
  \/ \E r \in Indices(requests) : ServerClassify(r)

SpecRisk == InitRisk /\ [][NextRisk]_vars

(***************************************************************************)
(* Proxy: the sliding-window rate limiter (checkRateLimit), one action     *)
(* per awaited KV command.  The calls are hosted in requests, the sorted   *)
(* set of the client's key in kv.                                          *)
(***************************************************************************)
DAILY_LIMIT == 100
WINDOW_MS == 24 * MS_PER_HOUR
\* number of checkRateLimit calls of one client
MaxChecks == 3

\* n members of score t
Stored(n, t) == [i \in 1..n |-> t]
\* the sorted set when the first modelled call arrives: 99 or 100 requests
\* made a second ago, or 98 of them and one or two about to leave the window
StoredWindows ==
  { Stored(DAILY_LIMIT - 1, StartTime - 1000),
    Stored(DAILY_LIMIT, StartTime - 1000),
    <<StartTime - WINDOW_MS + 500>> \o Stored(DAILY_LIMIT - 2, StartTime - 1000),
    <<StartTime - WINDOW_MS, StartTime - WINDOW_MS + 500>>
       \o Stored(DAILY_LIMIT - 2, StartTime - 1000) }

\* kv.zremrangebyscore(key, 0, max): the members with a score in [0, max] go
zremrangebyscore(set, max) == SelectSeq(set, LAMBDA score : score > max)
\* kv.zcard(key)
zcard(set) == Len(set)

IsCheck(c, pc) ==
  c \in Indices(requests) /\ requests[c].type = "checkRateLimit" /\ requests[c].pc = pc

\* checkRateLimit(clientId) is called: now and windowStart are read and the
\* first command is sent
CheckStart ==
  /\ Len(requests) < MaxChecks
  /\ requests' = Append(requests, [type |-> "checkRateLimit", pc |-> "zremrangebyscore",
                                   now |-> now, windowStart |-> now - WINDOW_MS,
                                   count |-> UNSET, added |-> FALSE,
                                   allowed |-> FALSE, remaining |-> UNSET])
  /\ UNCHANGED <<pageVars, srvVars, clockVars, detVars, sessVars, ovVars, bgVars, ghostVars>>

\* await kv.zremrangebyscore(key, 0, windowStart)
KvRemove(c) ==
  /\ IsCheck(c, "zremrangebyscore")
  /\ kv' = zremrangebyscore(kv, requests[c].windowStart)
  /\ requests' = [requests EXCEPT ![c].pc = "zcard"]
  /\ UNCHANGED <<pageVars, clockVars, detVars, sessVars, ovVars, bgVars, ghostVars>>

\* const count = await kv.zcard(key); if (count >= DAILY_LIMIT) the oldest
\* member is asked for, else the new member is sent
KvCard(c) ==
  /\ IsCheck(c, "zcard")
  /\ requests' = [requests EXCEPT ![c].count = zcard(kv),
                                  ![c].pc = IF zcard(kv) >= DAILY_LIMIT
                                              THEN "zrangeDenied" ELSE "zadd"]
  /\ UNCHANGED <<pageVars, srvVars, clockVars, detVars, sessVars, ovVars, bgVars, ghostVars>>

\* await kv.zadd(key, { score: now, member: requestId })
KvAdd(c) ==
  /\ IsCheck(c, "zadd")
  /\ kv' = Append(kv, requests[c].now)
  /\ requests' = [requests EXCEPT ![c].added = TRUE, ![c].pc = "expire"]
  /\ UNCHANGED <<pageVars, clockVars, detVars, sessVars, ovVars, bgVars, ghostVars>>

\* the remaining commands (expire, zrange) are served and the result returned
KvReturn(c) ==
  /\ IsCheck(c, "expire") \/ IsCheck(c, "zrangeDenied")
  /\ requests' = [requests EXCEPT
        ![c].pc = "returned",
        ![c].allowed = IsCheck(c, "expire"),
        ![c].remaining = IF IsCheck(c, "expire")
                           THEN DAILY_LIMIT - (requests[c].count + 1) ELSE 0]
  /\ UNCHANGED <<pageVars, srvVars, clockVars, detVars, sessVars, ovVars, bgVars, ghostVars>>

\* a KV command rejects: the catch block fails open
KvFails(c) ==
  /\ c \in Indices(requests)
  /\ requests[c].type = "checkRateLimit"
  /\ requests[c].pc # "returned"
  /\ requests' = [requests EXCEPT ![c].pc = "returned", ![c].allowed = TRUE,
                                  ![c].remaining = DAILY_LIMIT]
  /\ UNCHANGED <<pageVars, srvVars, clockVars, detVars, sessVars, ovVars, bgVars, ghostVars>>

\* the server's clock advances
LimitTick(d) ==
  /\ ticks < MaxTicks
  /\ now' = now + d
  /\ ticks' = ticks + 1
  /\ UNCHANGED <<pageVars, srvVars, detVars, sessVars, ovVars, bgVars, requests, ghostVars>>

InitLimit ==
  /\ now = StartTime
  /\ ticks = 0
  /\ kv \in StoredWindows
  /\ heldClicks = 0
  /\ InitPage
  /\ InitStorage
  /\ enabled = TRUE
  /\ settings = DefaultSettings

NextLimit ==
  \/ CheckStart
  \/ \E c \in 1..MaxChecks : KvRemove(c)
  \/ \E c \in 1..MaxChecks : KvCard(c)
  \/ \E c \in 1..MaxChecks : KvAdd(c)
  \/ \E c \in 1..MaxChecks : KvReturn(c)
  \/ \E c \in 1..MaxChecks : KvFails(c)
  \/ \E d \in TickSteps : LimitTick(d)

SpecLimit == InitLimit /\ [][NextLimit]_vars

(***************************************************************************)
(* Proxy: generateWithRetry on drawn outcomes of its attempts.  The call   *)
(* is hosted in requests; messages are the sequences of their characters   *)
(***************************************************************************)
\* largest maxRetries a call is made with
MaxRetries == 2

\* the messages of the errors an attempt can throw
InvalidKeyError ==
  <<"I", "n", "v", "a", "l", "i", "d", " ", "A", "P", "I", " ", "k", "e", "y">>
RateLimitError ==
  <<"4", "2", "9", " ", "r", "a", "t", "e", " ", "l", "i", "m", "i", "t", " ",
    "e", "x", "c", "e", "e", "d", "e", "d">>
RateLimitReachedError ==
  <<"R", "a", "t", "e", " ", "l", "i", "m", "i", "t", " ", "r", "e", "a", "c",
    "h", "e", "d">>
TimeoutError ==
  <<"O", "p", "e", "n", "A", "I", " ", "A", "P", "I", " ", "t", "i", "m", "e",
    "o", "u", "t">>
ParseError ==
  <<"C", "o", "u", "l", "d", " ", "n", "o", "t", " ", "p", "a", "r", "s", "e",
    " ", "L", "L", "M", " ", "r", "e", "s", "p", "o", "n", "s", "e">>
AllFailedError ==
  <<"A", "l", "l", " ", "r", "e", "t", "r", "y", " ", "a", "t", "t", "e", "m",
    "p", "t", "s", " ", "f", "a", "i", "l", "e", "d">>
ErrorMessages ==
  {InvalidKeyError, RateLimitError, RateLimitReachedError, TimeoutError, ParseError}

\* the two needles of the condition that ends the loop
InvalidKeyNeedle ==
  <<"I", "n", "v", "a", "l", "i", "d", " ", "A", "P", "I", " ", "k", "e", "y">>
RateLimitNeedle ==
  <<"r", "a", "t", "e", " ", "l", "i", "m", "i", "t">>

\* the condition that ends the loop, never true
DontRetry_Never(message) == FALSE

\* lastError.message.includes("Invalid API key") ||
\* lastError.message.includes("rate limit")
DontRetry(message) == Includes(message, InvalidKeyNeedle) \/ Includes(message, RateLimitNeedle)

IsRetry(c, pc) ==
  c \in Indices(requests) /\ requests[c].type = "generateWithRetry" /\ requests[c].pc = pc

\* the test of the for loop: another attempt is made, or the loop is left and
\* lastError || new Error("All retry attempts failed") is thrown
RetryLoop ==
  /\ IsRetry(1, "for")
  /\ LET q == requests[1]
     IN requests' = [requests EXCEPT ![1] =
          IF q.attempt <= q.maxRetries
          THEN [q EXCEPT !.pc = "await", !.attempts = @ + 1]
          ELSE [q EXCEPT !.pc = "thrown",
                         !.thrown = IF Len(q.errors) > 0 THEN q.errors[Len(q.errors)]
                                    ELSE AllFailedError]]
  /\ UNCHANGED <<pageVars, srvVars, clockVars, detVars, sessVars, ovVars, bgVars, ghostVars>>

\* generateReflectionQuestions resolves: its result is returned
AttemptSucceeds(questions) ==
  /\ IsRetry(1, "await")
  /\ requests' = [requests EXCEPT ![1] =
       [@ EXCEPT !.pc = "returned", !.result = questions,
                 !.resultOf = requests[1].attempts]]
  /\ UNCHANGED <<pageVars, srvVars, clockVars, detVars, sessVars, ovVars, bgVars, ghostVars>>

\* generateReflectionQuestions rejects with an error of that message: the
\* catch block keeps it in lastError and breaks or goes on with attempt++
AttemptFails(message) ==
  /\ IsRetry(1, "await")
  /\ requests' = [requests EXCEPT ![1] =
       IF DontRetry(message)
       THEN [@ EXCEPT !.pc = "thrown", !.errors = Append(@, message), !.thrown = message]
       ELSE [@ EXCEPT !.pc = "for", !.errors = Append(@, message),
                      !.attempt = @ + 1]]
  /\ UNCHANGED <<pageVars, srvVars, clockVars, detVars, sessVars, ovVars, bgVars, ghostVars>>

\* generateWithRetry(request, maxRetries) was called: attempt = 0, lastError
\* = null (errors holds the messages of the failed attempts, the last of
\* them lastError)
InitRetry ==
  /\ now = StartTime
  /\ ticks = 0
  /\ kv = <<>>
  /\ heldClicks = 0
  /\ InitPage
  /\ stats = ZeroStats
  /\ purchaseHistory = <<>>
  /\ coolingOffList = <<>>
  /\ enabled = TRUE
  /\ settings = DefaultSettings
  /\ \E m \in -1..MaxRetries :
       requests = <<[type |-> "generateWithRetry", pc |-> "for", maxRetries |-> m,
                     attempt |-> 0, attempts |-> 0, errors |-> <<>>,
                     result |-> 0, resultOf |-> 0, thrown |-> <<>>]>>

NextRetry ==
  \/ RetryLoop
  \/ \E questions \in 2..3 : AttemptSucceeds(questions)
  \/ \E message \in ErrorMessages : AttemptFails(message)

SpecRetry == InitRetry /\ [][NextRetry]_vars

(***************************************************************************)
(* Properties                                                              *)
(***************************************************************************)
\* a step that sends PURCHASE_DETECTED, and the message it sends
SendsDetected == Len(requests') = Len(requests) + 1
Sent == requests'[Len(requests')]

\* a step in which the isSuppressed() call at the head of the queue resumes
Resumes == calls # <<>> /\ calls' = Tail(calls)

\* the pending events of tab t whose prompt the user has not resolved
ActiveEvents(t) ==
  {i \in Indices(purchaseHistory) :
     /\ purchaseHistory[i].tab = t
     /\ purchaseHistory[i].outcome = "pending"
     /\ purchaseHistory[i].id \notin resolved}

\* C1: each tab has at most one pending event that awaits the user's resolution
C1_OneActiveEventPerTab == \A t \in Tabs : Cardinality(ActiveEvents(t)) <= 1

\* the PURCHASE_DETECTED messages for URL u the coordinator has not answered
Unanswered(u) ==
  {r \in Indices(requests) :
     /\ requests[r].type = "PURCHASE_DETECTED"
     /\ requests[r].url = u
     /\ requests[r].pc \in {"policy", "overlaySent"}}

\* C2: at most one PURCHASE_DETECTED per URL is unanswered at any time
C2_OneOutstandingPerUrl == \A u \in URLs : Cardinality(Unanswered(u)) <= 1

\* C3: once the overlay was shown for the current URL or a click on it was
\* passed through, autoDetectPurchaseIntent sends no PURCHASE_DETECTED for it
\* until the URL changes
C3_PerUrlIdempotence ==
  [][(SendsDetected /\ Sent.kind = "auto") => claimHandled # href]_vars

\* C4: an automatic PURCHASE_DETECTED is sent at least AUTO_DETECT_DEBOUNCE_MS
\* after the previous automatic one of the page
C4_AutoDebounced ==
  [][(SendsDetected /\ Sent.kind = "auto")
       => (lastAutoSent = UNSET \/ now - lastAutoSent >= 2000)]_vars

\* two automatic detections were sent, the second after the clock advanced
C4_Witness ==
  /\ Len(requests) = 2
  /\ requests[1].kind = "auto"
  /\ requests[2].kind = "auto"
  /\ lastAutoSent > StartTime

\* the suppression window of the last PROCEED_WITH_PURCHASE is open
InWindow == proceedAt # UNSET /\ now < proceedAt + 30000

\* the window of the last PROCEED_WITH_PURCHASE closed more than 0 ms ago
Expired == proceedAt # UNSET /\ now > proceedAt + 30000

HandledOutcomes ==
  {r \in Indices(requests) :
     requests[r].type = "PURCHASE_OUTCOME" /\ requests[r].pc = "responded"}

\* the events for which a saved or cooled_off outcome was handled
SavedEvents ==
  {requests[r].eventId : r \in {x \in HandledOutcomes :
                                   requests[x].outcome \in {"saved", "cooled_off"}}}

RECURSIVE SumPrices(_)
SumPrices(E) ==
  IF E = {} THEN 0
  ELSE LET e == CHOOSE x \in E : TRUE IN requests[e].price + SumPrices(E \ {e})

\* C7: the price of an event is credited to savedTotal and savedToday at
\* most once, however many PURCHASE_OUTCOME messages name the event
C7_CreditedOnce ==
  /\ stats.savedTotal <= SumPrices(SavedEvents)
  /\ stats.savedToday <= SumPrices(SavedEvents)

\* C8: handling a PURCHASE_OUTCOME leaves the outcome and reflection time of
\* a record that is no longer pending as they are
C8_MutatedOnce ==
  [][\A r \in Indices(requests) :
       (IsOutcome(r, "write") /\ requests'[r].pc = "responded") =>
         \A i \in Indices(purchaseHistory) :
           (purchaseHistory[i].id = requests[r].eventId
              /\ purchaseHistory[i].outcome # "pending") =>
             /\ i <= Len(purchaseHistory')
             /\ purchaseHistory'[i].outcome = purchaseHistory[i].outcome
             /\ purchaseHistory'[i].reflectionTime = purchaseHistory[i].reflectionTime]_vars

AllHandled == \A r \in Indices(requests) : requests[r].pc = "responded"

RECURSIVE SumCredits(_)
SumCredits(R) ==
  IF R = {} THEN 0
  ELSE LET r == CHOOSE x \in R : TRUE
       IN (IF requests[r].outcome \in {"saved", "cooled_off"}
           THEN requests[r].resp.savedAmount ELSE 0) + SumCredits(R \ {r})

\* C9: when every handler has finished, storage holds every pending event
\* appended, every outcome written and every credit added
C9_NoLostUpdate ==
  AllHandled =>
    /\ \A r \in Indices(requests) :
         (requests[r].type = "PURCHASE_DETECTED" /\ requests[r].resp.blocked) =>
           \E i \in Indices(purchaseHistory) : purchaseHistory[i].id = requests[r].eventId
    /\ \A r \in HandledOutcomes :
         \E i \in Indices(purchaseHistory) :
           /\ purchaseHistory[i].id = requests[r].eventId
           /\ purchaseHistory[i].outcome # "pending"
    /\ stats.savedTotal = SumCredits(HandledOutcomes)

\* C10: a PURCHASE_DETECTED that passed the policy checks eventually gets a
\* response that carries questions
C10_AlwaysAnswered ==
  \A r \in 1..MaxDetected :
    IsDetected(r, "proxy") ~> (IsDetected(r, "responded") /\ requests[r].resp.questions > 0)

\* a click on shield b that the detector intercepted and has not settled
ClickIntercepted(b) ==
  \/ \E i \in Indices(calls) : calls[i].kind = "click" /\ calls[i].button = b
  \/ \E r \in Indices(requests) :
       /\ requests[r].kind = "click"
       /\ requests[r].button = b
       /\ requests[r].pc # "done"

\* the prompt was shown on this URL, or a click on it was delivered to the button
ClickSettled == ovVisible \/ claimHandled = href

\* C11: every click a shield intercepts ends with the prompt shown or with
\* the click delivered to the button, whatever fails on the way
C11_ClickNeverSwallowed ==
  \A b \in Buttons : ClickIntercepted(b) ~> ClickSettled

\* the user has resolved the prompt and the detector still holds overlayActive
ResolvedNotReleased == resolved # {} /\ ~ovVisible /\ overlayActive

\* C12: after the user resolves the prompt, the detector receives
\* PROCEED_WITH_PURCHASE or RESET_DETECTION and clears overlayActive
C12_InstructionReachesDetector == ResolvedNotReleased ~> ~overlayActive

\* the detections whose SHOW_OVERLAY the coordinator has sent
OverlaySentFor ==
  {r \in Indices(requests) :
     /\ requests[r].type = "PURCHASE_DETECTED"
     /\ requests[r].pc \in {"overlaySent", "responded"}
     /\ requests[r].resp.blocked}

\* C13: the pending event of a blocked detection is in purchaseHistory, with
\* outcome pending or the outcome reported for it, from the moment SHOW_OVERLAY
\* with its eventId is sent and through the blocked:true response, so that a
\* PURCHASE_OUTCOME for a shown eventId finds its record
C13_PersistedBeforeShown ==
  \A r \in OverlaySentFor :
    \E i \in Indices(purchaseHistory) : purchaseHistory[i].id = requests[r].eventId

\* the detections whose policy checks the coordinator has made
Decided ==
  {r \in Indices(requests) :
     requests[r].type = "PURCHASE_DETECTED" /\ requests[r].pc # "policy"}

\* the reason codes in the order of the checks, and the checks a detection
\* passes, in that order
ReasonCodes == <<"extension_disabled", "quiet_hours", "site_not_enabled", "low_confidence">>

ChecksPassed(req) ==
  <<enabled,
    ~(settings.quietHours.set /\ InQuietHours(settings.quietHours, CurrentHour(now))),
    settings.enabledSites = {} \/ \E e \in settings.enabledSites : Includes(req.site, e),
    req.confidence >= 50>>

\* C14: a detection is refused with the reason of the first check that fails,
\* in the order enabled, quiet hours, site list, confidence, and is blocked
\* exactly when the four checks pass
C14_FirstFailingCheck ==
  \A r \in Decided :
    LET c == ChecksPassed(requests[r])
        failing == {i \in 1..4 : ~c[i]}
    IN IF failing = {}
       THEN /\ requests[r].resp.reason = NULL
            /\ requests[r].pc = "responded" => requests[r].resp.blocked
       ELSE /\ requests[r].pc = "responded"
            /\ ~requests[r].resp.blocked
            /\ \E i \in failing : /\ \A j \in failing : i <= j
                                  /\ requests[r].resp.reason = ReasonCodes[i]

\* a detection that fails the last three checks was refused for quiet hours
C14_Witness ==
  \E r \in Decided :
    /\ ChecksPassed(requests[r]) = <<TRUE, FALSE, FALSE, FALSE>>
    /\ requests[r].pc = "responded"
    /\ requests[r].resp.reason = "quiet_hours"

\* the hour a start or end value of a quiet-hours window stands for: the
\* number itself, or the HH of a string HH:MM
WindowHour(v) == IF v.num THEN v.n ELSE DecimalValue(SubSeq(v.s, 1, 2))

\* hour h lies in the window from hour a to hour b, which wraps when a > b
HourInWindow(a, b, h) ==
  \/ (a < b /\ a <= h /\ h < b)
  \/ (a > b /\ (h >= a \/ h < b))

\* C15: with the extension enabled, a detection is refused for quiet hours
\* exactly when a window is configured and the current hour lies in it, a
\* window with start > end wrapping over midnight
C15_QuietHoursWindow ==
  \A r \in Decided :
    enabled =>
      (requests[r].resp.reason = "quiet_hours"
         <=> /\ settings.quietHours.set
             /\ HourInWindow(WindowHour(settings.quietHours.start),
                             WindowHour(settings.quietHours.end), CurrentHour(now)))

\* s is a run of consecutive characters of h
IsSubstring(s, h) ==
  \E i \in 1..(Len(h) + 1) : \E j \in (i - 1)..Len(h) : SubSeq(h, i, j) = s

\* C16: a detection that reaches the site check passes it exactly when the
\* enabled-site list is empty or an entry of it is a substring of the
\* detection's hostname, and is refused with site_not_enabled otherwise
C16_SiteCheck ==
  \A r \in Decided :
    (ChecksPassed(requests[r])[1] /\ ChecksPassed(requests[r])[2]) =>
      (requests[r].resp.reason # "site_not_enabled"
         <=> \/ settings.enabledSites = {}
             \/ \E e \in settings.enabledSites : IsSubstring(e, requests[r].site))

\* a detection was blocked under a list whose only matching entry lies
\* inside the hostname, and the list does not hold the site's own domain
C16_Witness ==
  \E r \in Decided :
    /\ requests[r].pc = "responded"
    /\ requests[r].resp.blocked
    /\ settings.enabledSites # {}
    /\ AmazonSite \notin settings.enabledSites

\* a step in which the handler of detection r returns blocked: false
Refuses(r) ==
  /\ IsDetected(r, "policy") \/ IsDetected(r, "proxy") \/ IsDetected(r, "readHistory")
       \/ IsDetected(r, "writeHistory") \/ IsDetected(r, "overlaySent")
  /\ requests'[r].pc = "responded"
  /\ ~requests'[r].resp.blocked

\* C17: the handler that refuses a detection returns from its policy checks,
\* before the proxy call and with no SHOW_OVERLAY sent, leaves purchaseHistory
\* and stats as they are, and answers with one of the four reason codes
C17_RefusalHasNoEffect ==
  [][\A r \in Indices(requests) :
       Refuses(r) =>
         /\ requests[r].pc = "policy"
         /\ purchaseHistory' = purchaseHistory
         /\ stats' = stats
         /\ requests'[r].eventId = NoEvent
         /\ \E i \in 1..4 : requests'[r].resp.reason = ReasonCodes[i]]_vars

\* a detection was refused for its confidence after an earlier one was
\* blocked and its pending event stored
C17_Witness ==
  \E r \in Decided :
    /\ requests[r].pc = "responded"
    /\ requests[r].resp.reason = "low_confidence"
    /\ Len(purchaseHistory) = 1

\* a step in which the handler of PURCHASE_OUTCOME r stores and answers
Answers(r) == IsOutcome(r, "write") /\ requests'[r].pc = "responded"

\* the records of purchaseHistory with the eventId of message r
Matches(r) == {i \in Indices(purchaseHistory) : purchaseHistory[i].id = requests[r].eventId}

\* C18: for a PURCHASE_OUTCOME whose eventId matches a stored record, saved
\* and cooled_off add the record's price to savedToday and to savedTotal and
\* answer with savedAmount equal to it; bought leaves both counters unchanged
C18_CreditsMatchingRecord ==
  [][\A r \in Indices(requests) :
       (Answers(r) /\ Matches(r) # {}) =>
         LET price == purchaseHistory[CHOOSE i \in Matches(r) : TRUE].price
         IN IF requests[r].outcome \in {"saved", "cooled_off"}
            THEN /\ stats'.savedToday = stats.savedToday + price
                 /\ stats'.savedTotal = stats.savedTotal + price
                 /\ requests'[r].resp.savedAmount = price
            ELSE /\ stats'.savedToday = stats.savedToday
                 /\ stats'.savedTotal = stats.savedTotal]_vars

\* cooled_off was handled for the event of price 50 and credited on top of
\* the counters stored before
C18_Witness ==
  \E r \in HandledOutcomes :
    /\ requests[r].outcome = "cooled_off"
    /\ requests[r].resp.savedAmount = 50
    /\ stats.savedToday = 55
    /\ stats.savedTotal = 120

\* C19: a PURCHASE_OUTCOME whose eventId matches no record is answered with
\* savedAmount 0; one record with its eventId and outcome is appended, the
\* stored records and the savings counters are unchanged
C19_OrphanRecord ==
  [][\A r \in Indices(requests) :
       (Answers(r) /\ Matches(r) = {}) =>
         /\ Len(purchaseHistory') = Len(purchaseHistory) + 1
         /\ SubSeq(purchaseHistory', 1, Len(purchaseHistory)) = purchaseHistory
         /\ purchaseHistory'[Len(purchaseHistory')].id = requests[r].eventId
         /\ purchaseHistory'[Len(purchaseHistory')].outcome = requests[r].outcome
         /\ requests'[r].resp.savedAmount = 0
         /\ stats' = stats]_vars

\* saved was handled for eventId 3, which no stored record had: the two
\* stored records are followed by the orphan, the counters are as stored
C19_Witness ==
  /\ Len(purchaseHistory) = 3
  /\ purchaseHistory[3].id = 3
  /\ purchaseHistory[3].outcome = "saved"
  /\ purchaseHistory[1].outcome = "pending"
  /\ stats.savedTotal = 70
  /\ \E r \in HandledOutcomes : requests[r].eventId = 3

\* the detections for which callProxyAPI has resolved
ProxyResolved ==
  {r \in Indices(requests) :
     requests[r].type = "PURCHASE_DETECTED"
       /\ requests[r].pc \in {"readHistory", "writeHistory", "overlaySent", "responded"}}

TransientErrors == {"Failed to fetch", "api_error_500"}

\* C21: a call of callProxyAPI that ends in the fallback after a transient
\* failure (network error, status 5xx) has fetched twice, the POST and one
\* retry; a call that ends after status 429 has fetched once
C21_RetriedOnceWhenTransient ==
  \A r \in ProxyResolved :
    /\ requests[r].resp.error \in TransientErrors => requests[r].resp.fetches = 2
    /\ requests[r].resp.error = "rate_limit_exceeded" => requests[r].resp.fetches = 1

\* the level of the documented score of a request: late_night +2 or night
\* +1; recentPurchaseCount above 3 +2 or above 1 +1; frictionLevel 4 or more
\* +1; price above 200 +2 or above 50 +1; 4 or more is high, 2 or more medium
DocumentedRisk(q) ==
  LET score == (CASE q.context.timeOfDay = "late_night" -> 2
                  [] q.context.timeOfDay = "night" -> 1
                  [] OTHER -> 0)
               + (CASE q.context.recentPurchaseCount > 3 -> 2
                    [] q.context.recentPurchaseCount > 1 -> 1
                    [] OTHER -> 0)
               + (IF q.context.frictionLevel >= 4 THEN 1 ELSE 0)
               + (CASE q.product.price > 200 -> 2
                    [] q.product.price > 50 -> 1
                    [] OTHER -> 0)
  IN CASE score >= 4 -> "high" [] score >= 2 -> "medium" [] OTHER -> "low"

\* C22: the level the local classifier gives a request is the level of the
\* request's documented score
C22_LocalRiskIsDocumented ==
  \A r \in Indices(requests) :
    requests[r].localRisk # NULL => requests[r].localRisk = DocumentedRisk(requests[r])

\* C23: once both classifiers have classified a request, the local level and
\* the server's level are the same
C23_LocalEqualsServer ==
  \A r \in Indices(requests) :
    (requests[r].localRisk # NULL /\ requests[r].serverRisk # NULL)
      => requests[r].localRisk = requests[r].serverRisk

\* the PURCHASE_DETECTED messages the detector has sent
DetectedMessages ==
  {r \in Indices(requests) : requests[r].type = "PURCHASE_DETECTED"}

\* C24: on every page the URL score is 0 or 30, the button score 0 or 40, the
\* DOM score between 0 and 30, and their sum between 0 and 100; the
\* confidence of every PURCHASE_DETECTED message is between 0 and 100
C24_ConfidenceInRange ==
  /\ getUrlScore(href) \in {0, 30}
  /\ getButtonScore(dom) \in {0, 40}
  /\ getDomScore(dom) \in 0..30
  /\ totalScore(href, dom) = getUrlScore(href) + getButtonScore(dom) + getDomScore(dom)
  /\ totalScore(href, dom) \in 0..100
  /\ \A r \in DetectedMessages : requests[r].confidence \in 0..100

\* a message of auto-detection was sent with confidence 100 from a page with
\* two purchase buttons, and a click was reported with confidence 100
C24_Witness ==
  /\ dom.buttons = {"buy", "cart"}
  /\ \E r \in DetectedMessages : requests[r].kind = "auto" /\ requests[r].confidence = 100
  /\ \E r \in DetectedMessages : requests[r].kind = "click"

\* a call of autoDetectPurchaseIntent, made on a URL that was not handled,
\* goes on after its await with no suppression in force and the debounce
\* interval elapsed
AutoScores ==
  /\ calls # <<>>
  /\ Head(calls).kind = "auto"
  /\ calls' = Tail(calls)
  /\ ~(Head(calls).until # UNSET /\ now < Head(calls).until)
  /\ now - lastAutoDetection >= 2000

\* C25: such a call sends PURCHASE_DETECTED if and only if the sum of the
\* three scores of the page is 60 or more, and the confidence of the message
\* is that sum; with a sum below 60 nothing is sent
C25_TriggersFromSixty ==
  [][AutoScores =>
       LET score == getUrlScore(href) + getButtonScore(dom) + getDomScore(dom)
       IN IF score >= 60
          THEN /\ Len(requests') = Len(requests) + 1
               /\ requests'[Len(requests')].type = "PURCHASE_DETECTED"
               /\ requests'[Len(requests')].kind = "auto"
               /\ requests'[Len(requests')].confidence = score
          ELSE requests' = requests]_vars

\* a message of auto-detection was sent with confidence 60 and the page has
\* no purchase button
C25_Witness ==
  /\ dom.buttons = {}
  /\ \E r \in DetectedMessages : requests[r].kind = "auto" /\ requests[r].confidence = 60

\* the page has a checkout URL, a "Buy Now" button, a payment-card input and
\* an order-summary container
CheckoutPage ==
  href \in CheckoutUrls /\ "buy" \in dom.buttons /\ dom.card /\ dom.summary

\* the confidence of the message the step sends
SentConfidence == requests'[Len(requests')].confidence

\* C26 as stated: auto-detection on such a page, with no price or total
\* element in it, reports the score 100
C26_CheckoutPageScoresHundred ==
  [][(AutoScores /\ CheckoutPage /\ ~dom.price) =>
       (Len(requests') = Len(requests) + 1 /\ SentConfidence = 100)]_vars

\* C26: auto-detection on such a page reports the score 90 = 30 + 40 + 20 when
\* no element of the page matches the price selectors, and 100 = 30 + 40 + 30
\* when one does
C26_CheckoutPageScoresNinety ==
  [][(AutoScores /\ CheckoutPage) =>
       /\ Len(requests') = Len(requests) + 1
       /\ SentConfidence = (IF dom.price THEN 100 ELSE 90)]_vars

\* a message of auto-detection was sent from the checkout URL with
\* confidence 90, and the page has button, card input and order summary
\* but no price element
C26_Witness ==
  /\ CheckoutPage
  /\ ~dom.price
  /\ \E r \in DetectedMessages :
       /\ requests[r].kind = "auto"
       /\ requests[r].url \in CheckoutUrls
       /\ requests[r].confidence = 90

\* C27: whatever calls of shieldPurchaseButtons were made, document.body
\* holds at most one shield for a button, the buttons of the map are those
\* with a shield in the document, and a call on a document whose visible
\* purchase buttons are all in the map adds no shield to the document and
\* no button to the map
C27_OneShieldPerButton ==
  /\ [](\A b \in DOMAIN dom.shields :
          /\ Len(dom.shields[b]) <= 1
          /\ b \in shieldedButtons <=> Len(dom.shields[b]) = 1)
  /\ [][(ShieldMutation([dom' EXCEPT !.shields = [b \in DOMAIN dom.shields |-> <<>>]])
           /\ {b \in dom'.buttons : ~ZeroBox(dom', b)} \subseteq shieldedButtons)
          => /\ shieldedButtons' = shieldedButtons
             /\ \A b \in DOMAIN dom.shields : Len(dom'.shields[b]) = Len(dom.shields[b])]_vars

\* after the shields were removed on a URL change and created again, and
\* shieldPurchaseButtons has run once more, both buttons have one shield, the
\* first at the scroll-adjusted place of its button
C27_Witness ==
  /\ href \in CheckoutUrls
  /\ lastUrl = href
  /\ shieldedButtons = {"buy", "cart"}
  /\ Len(dom.shields["buy"]) = 1
  /\ Len(dom.shields["cart"]) = 1
  /\ dom.rect["buy"].top = 100
  /\ dom.shields["buy"][1].top = 150
  /\ dom.scrollY = 50
  /\ Len(calls) = 2

\* the step is a resize event: the layout becomes that of the new document
\* and the resize listener runs
Resized == Resize([dom' EXCEPT !.shields = [b \in DOMAIN dom.shields |-> <<>>]])

\* C28: after a resize event the map has the buttons it had, each with its
\* shield in the document; the shield of a button whose box has no width or
\* no height has display none, every other shield is displayed and has the
\* top and left of its button's box plus the scroll offsets, and its width
\* and height
C28_ResizeRepositions ==
  [][Resized =>
       /\ shieldedButtons' = shieldedButtons
       /\ \A b \in shieldedButtons :
            /\ Len(dom'.shields[b]) = 1
            /\ LET shield == dom'.shields[b][1]
                   rect == dom'.rect[b]
               IN IF rect.width = 0 \/ rect.height = 0
                  THEN shield.display = "none"
                  ELSE /\ shield.display = ""
                       /\ shield.top = rect.top + dom'.scrollY
                       /\ shield.left = rect.left + dom'.scrollX
                       /\ shield.width = rect.width
                       /\ shield.height = rect.height]_vars

\* with the window scrolled, the shield of the first button, whose box has
\* no height, is hidden and is in the map and in the document, and the shield
\* of the second is displayed at the scroll-adjusted place of its button
C28_Witness ==
  /\ dom.scrollY = 50
  /\ shieldedButtons = {"buy", "cart"}
  /\ dom.rect["buy"].height = 0
  /\ Len(dom.shields["buy"]) = 1
  /\ dom.shields["buy"][1].display = "none"
  /\ dom.shields["cart"][1].display = ""
  /\ dom.shields["cart"][1].top = 250

\* the detector gets the response blocked: false to the PURCHASE_DETECTED
\* message r of a shield click
ClickRefused(r) ==
  /\ IsDetected(r, "responded")
  /\ requests[r].tab = TabA
  /\ requests[r].kind = "click"
  /\ ~requests[r].resp.blocked
  /\ requests'[r].pc = "done"

\* C29: when the detector gets blocked: false for a shield click, in that
\* step all shields are removed, the click is delivered to the button,
\* pendingButton becomes null, and neither handledUrl nor overlayActive is set
C29_RefusedClickPassesThrough ==
  [][\A r \in Indices(requests) :
       ClickRefused(r) =>
         /\ shieldedButtons' = {}
         /\ claimHandled' = href
         /\ pendingButton' = NULL
         /\ handledUrl' = handledUrl
         /\ overlayActive' = overlayActive]_vars

\* with the extension disabled a second click was refused after the first
\* was passed through: no shield is left, the click was delivered on this
\* URL, no button is pending, the URL is not handled and no overlay is active
C29_Witness ==
  /\ ~enabled
  /\ Len(requests) = 2
  /\ requests[1].pc = "done"
  /\ requests[2].pc = "done"
  /\ shieldedButtons = {}
  /\ claimHandled = href
  /\ pendingButton = NULL
  /\ handledUrl = NULL
  /\ ~overlayActive

\* the detector's listener processes PROCEED_WITH_PURCHASE or RESET_DETECTION
ProcessesInstruction ==
  /\ tabInbox # <<>>
  /\ Head(tabInbox) \in {"PROCEED_WITH_PURCHASE", "RESET_DETECTION"}
  /\ tabInbox' = Tail(tabInbox)

\* the URL watcher sees that href has changed
SeesNewUrl == href # lastUrl /\ lastUrl' = href

AllowedChecks ==
  {c \in Indices(requests) : /\ IsCheck(c, "returned")
                             /\ requests[c].allowed
                             /\ requests[c].now > now - WINDOW_MS}
\* the members of the window that earlier (allowed) requests left in the store
EarlierAllowed ==
  Len(SelectSeq(kv, LAMBDA score : score > now - WINDOW_MS))
    - Cardinality({c \in Indices(requests) : /\ requests[c].type = "checkRateLimit"
                                             /\ requests[c].added
                                             /\ requests[c].now > now - WINDOW_MS})

\* C31: a client is answered allowed=true for at most 100 requests of any
\* 24-hour window, interleaved calls included, and a request answered
\* allowed=false has added no member to the window
C31_AtMostLimitPerWindow ==
  /\ EarlierAllowed + Cardinality(AllowedChecks) <= DAILY_LIMIT
  /\ \A c \in Indices(requests) :
       IsCheck(c, "returned") /\ ~requests[c].allowed => ~requests[c].added

\* C32: a chrome.storage.local error while the coordinator handles a
\* PURCHASE_DETECTED does not stop the handler: the request of the content
\* script is still answered
C32_StorageErrorStillAnswered ==
  [][\A r \in 1..MaxDetected :
       HandlerFails(r) => requests'[r].pc \in {"overlaySent", "responded"}]_vars

\* the detector processes the RESET_DETECTION of a dismissal: nothing was
\* saved for later, so the message is the one handleDismiss sent
DismissProcessed == DetReset /\ coolingOffList = <<>> /\ resolved # {}

\* C33: once the RESET_DETECTION of a dismissal is processed, detection is
\* reset: the page's URL is not marked as handled, so its purchase buttons are
\* shielded again and a click on one triggers the prompt again
C33_DismissRearms ==
  [][DismissProcessed =>
       /\ handledUrl' # href'
       /\ shieldPurchaseButtons(handledUrl', dom', shieldedButtons') = dom'.buttons]_vars

\* the step is a DOM mutation the MutationObserver callback has processed:
\* the document becomes the new one and shieldPurchaseButtons has run
MutationProcessed ==
  ShieldMutation([dom' EXCEPT !.shields = [b \in DOMAIN dom.shields |-> <<>>]])

\* C34: after a processed DOM mutation every button of the map is in the
\* document, and a button that is not in the document has no displayed shield
C34_ShieldsFollowButtons ==
  [][MutationProcessed =>
       /\ shieldedButtons' \subseteq dom'.buttons
       /\ \A b \in DOMAIN dom'.shields \ dom'.buttons :
            \A i \in Indices(dom'.shields[b]) : dom'.shields[b][i].display = "none"]_vars

\* C35: generateWithRetry makes at most maxRetries + 1 attempts; it returns the
\* result of the first attempt that succeeds and attempts nothing after it; no
\* attempt follows an error whose message contains "Invalid API key" or
\* "rate limit"; when it throws after an attempt, it throws the last
\* attempt's error
C35_RetryBounded ==
  \A c \in Indices(requests) :
    LET q == requests[c]
    IN /\ q.attempts <= IF q.maxRetries >= 0 THEN q.maxRetries + 1 ELSE 0
       /\ q.pc = "returned" =>
            /\ q.resultOf = q.attempts
            /\ Len(q.errors) = q.attempts - 1
            /\ q.result > 0
       /\ \A i \in Indices(q.errors) :
            (Includes(q.errors[i], InvalidKeyNeedle) \/ Includes(q.errors[i], RateLimitNeedle))
              => (i = q.attempts /\ q.pc = "thrown")
       /\ (q.pc = "thrown" /\ q.attempts > 0) =>
            /\ Len(q.errors) = q.attempts
            /\ q.thrown = q.errors[q.attempts]

\* a call with the default maxRetries = 1 made two attempts: the first hit a
\* timeout, the second an error with "rate limit", which was thrown
C35_Witness ==
  /\ IsRetry(1, "thrown")
  /\ requests[1].maxRetries = 1
  /\ requests[1].attempts = 2
  /\ requests[1].errors = <<TimeoutError, RateLimitError>>
  /\ requests[1].thrown = RateLimitError

\* the isSuppressed() read of a shield click settles with "not suppressed"
ClickNotSuppressed ==
  /\ calls # <<>>
  /\ Head(calls).kind = "click"
  /\ calls' = Tail(calls)
  /\ ~isSuppressed(Head(calls).until, now)

\* C36: a shield click that is not suppressed sends PURCHASE_DETECTED with
\* confidence 100 whatever the time since the last automatic detection or
\* the last click, and leaves lastAutoDetection as it was
C36_ClickNotDebounced ==
  [][ClickNotSuppressed =>
       /\ Len(requests') = Len(requests) + 1
       /\ requests'[Len(requests')].type = "PURCHASE_DETECTED"
       /\ requests'[Len(requests')].kind = "click"
       /\ requests'[Len(requests')].confidence = 100
       /\ lastAutoDetection' = lastAutoDetection]_vars

\* a click sent its message within the debounce window of the automatic
\* detection that had sent one at the same instant
C36_Witness ==
  /\ Len(requests) = 2
  /\ requests[1].kind = "auto"
  /\ requests[2].kind = "click"
  /\ requests[2].confidence = 100
  /\ lastAutoSent = now
  /\ DebounceRejects(now, lastAutoDetection)

\* C37: when the URL watcher sees a new href, handledUrl becomes null, the
\* shields that were in the document are removed, autoDetectPurchaseIntent is
\* started and is not stopped by a handled URL, and the shields in the
\* document afterwards are those created in this step, one for each visible
\* purchase button of the page, measured on the current layout
C37_UrlChangeStartsAfresh ==
  [][SeesNewUrl =>
       /\ handledUrl' = NULL
       /\ calls' = Append(calls, SuppressedCall("auto", NULL))
       /\ shieldedButtons' = {b \in dom'.buttons : ~ZeroBox(dom', b)}
       /\ \A b \in DOMAIN dom'.shields :
            dom'.shields[b] = IF b \in dom'.buttons /\ ~ZeroBox(dom', b)
                                THEN <<createShield(dom', b)>> ELSE <<>>]_vars

\* the URL watcher has seen the checkout URL after a blocked detection had
\* marked the product page as handled and the layout had changed under its
\* shields: handledUrl is null again and the shield of the first button is at
\* the button's place
C37_Witness ==
  /\ href \in CheckoutUrls
  /\ lastUrl = href
  /\ handledUrl = NULL
  /\ overlayActive
  /\ \E r \in Indices(requests) : requests[r].pc = "done"
  /\ dom.rect["buy"].top = 100
  /\ dom.shields["buy"] = <<createShield(dom, "buy")>>
  /\ Len(calls) = 1

\* C38: after a processed DOM mutation the shield of every button of the map
\* that is still a purchase button of the document is hidden when the button's
\* box has no width or no height, and is otherwise displayed at the button's
\* current box, also while the URL is marked as handled
C38_MutationRemeasures ==
  [][MutationProcessed =>
       \A b \in shieldedButtons \cap dom'.buttons :
         /\ Len(dom'.shields[b]) = 1
         /\ IF ZeroBox(dom', b)
            THEN dom'.shields[b][1].display = "none"
            ELSE dom'.shields[b][1] = createShield(dom', b)]_vars

\* the step dispatches button.click()
ClickDispatched == heldClicks' = heldClicks - 1

OpenDetections ==
  {r \in Indices(requests) :
     requests[r].type = "PURCHASE_DETECTED" /\ requests[r].pc # "done"}

\* C40: every PURCHASE_DETECTED message of the detector has a confidence of
\* 60 or more when it comes from auto-detection and of 100 when it comes from
\* a shield click, so the coordinator never answers one with the reason
\* low_confidence
C40_NeverLowConfidence ==
  \A r \in OpenDetections :
    /\ requests[r].kind = "auto" => requests[r].confidence >= AUTO_TRIGGER_SCORE
    /\ requests[r].kind = "click" => requests[r].confidence = CLICK_CONFIDENCE
    /\ requests[r].confidence >= MIN_CONFIDENCE
    /\ requests[r].resp.reason # "low_confidence"

\* the coordinator has let pass a message of auto-detection (confidence 80)
\* and one of a shield click (confidence 100) at its confidence gate
C40_Witness ==
  \E r1, r2 \in OpenDetections :
    /\ requests[r1].kind = "auto"
    /\ requests[r1].confidence = 80
    /\ requests[r1].resp.blocked
    /\ requests[r2].kind = "click"
    /\ requests[r2].confidence = 100
    /\ requests[r2].pc # "policy"
    /\ requests[r2].resp.blocked

====
